---- MODULE Spec2Model ----
(***************************************************************************)
(* Verification model of the teide columnar engine as it is driven by its  *)
(* Python bindings (bindings/python/teide) and the scripts around them.    *)
(* The bindings are modelled from their source; the C engine they call     *)
(* (group, sort, join, slices, splay storage) is modelled from the         *)
(* specification of the engine.                                            *)
(***************************************************************************)
EXTENDS Integers, Sequences, FiniteSets, TLC

(***************************************************************************)
(* Bounds of the model                                                     *)
(***************************************************************************)
MaxRows == 2

(***************************************************************************)
(* Program constants                                                       *)
(***************************************************************************)
OP_SUM == 50
OP_PROD == 51
OP_MIN == 52
OP_MAX == 53
OP_COUNT == 54
OP_AVG == 55
OP_FIRST == 56
OP_LAST == 57

\* Handles below this value are error codes (api.py: result_ptr < 32).
MinHandle == 32

\* Reserved null sentinel of the integer element type (stands for the
\* smallest value of the width).
NullI64 == 0 - 9


\* Largest key range the direct-array strategy allocates slots for.
DirectThreshold == 3

(***************************************************************************)
(* Generic helpers                                                         *)
(***************************************************************************)
Range(s) == {s[i] : i \in DOMAIN s}

SeqToBag(s) == [x \in Range(s) |-> Cardinality({i \in DOMAIN s : s[i] = x})]


MaxOf(a, b) == IF a >= b THEN a ELSE b
MinOf(a, b) == IF a <= b THEN a ELSE b

(***************************************************************************)
(* Value model: a table is an ordered list of column names with one vector *)
(* per name; an error value stands for the executor's failure sentinel.    *)
(***************************************************************************)
MkTable(names, cols) == [kind |-> "table", names |-> names, cols |-> cols, data |-> <<>>]
MkVec(data) == [kind |-> "vec", names |-> <<>>, cols |-> <<>>, data |-> data]
ErrVal == [kind |-> "err", names |-> <<>>, cols |-> <<>>, data |-> <<>>]

NRows(t) == IF Len(t.cols) = 0 THEN 0 ELSE Len(t.cols[1])

HasCol(t, name) == \E i \in DOMAIN t.names : t.names[i] = name
ColIdx(t, name) == CHOOSE i \in DOMAIN t.names : t.names[i] = name
ColData(t, name) == t.cols[ColIdx(t, name)]

\* Row i of a table as the tuple of its column values.
RowAt(t, i) == [j \in DOMAIN t.cols |-> t.cols[j][i]]
RowsOf(t) == [i \in 1..NRows(t) |-> RowAt(t, i)]

(***************************************************************************)
(* Aggregation engine (Group).  One accumulator per aggregate and group.   *)
(***************************************************************************)
AccInit(op) == [a |-> IF op = OP_PROD THEN 1 ELSE 0, n |-> 0, set |-> FALSE]

\* Variant of AccUpdate that accumulates the null sentinel like a value.
AccUpdateNulls(op, acc, v) ==
    CASE op = OP_SUM   -> [acc EXCEPT !.a = @ + v]
      [] op = OP_PROD  -> [acc EXCEPT !.a = @ * v]
      [] op = OP_MIN   -> IF ~acc.set THEN [acc EXCEPT !.a = v, !.set = TRUE]
                          ELSE [acc EXCEPT !.a = MinOf(@, v)]
      [] op = OP_MAX   -> IF ~acc.set THEN [acc EXCEPT !.a = v, !.set = TRUE]
                          ELSE [acc EXCEPT !.a = MaxOf(@, v)]
      [] op = OP_COUNT -> [acc EXCEPT !.n = @ + 1]
      [] op = OP_AVG   -> [acc EXCEPT !.a = @ + v, !.n = @ + 1]
      [] op = OP_FIRST -> IF acc.set THEN acc ELSE [acc EXCEPT !.a = v, !.set = TRUE]
      [] op = OP_LAST  -> [acc EXCEPT !.a = v, !.set = TRUE]
      [] OTHER         -> acc

AccUpdate(op, acc, v) ==
    CASE op = OP_SUM   -> IF v = NullI64 THEN acc ELSE [acc EXCEPT !.a = @ + v]
      [] op = OP_PROD  -> IF v = NullI64 THEN acc ELSE [acc EXCEPT !.a = @ * v]
      [] op = OP_MIN   -> IF v = NullI64 THEN acc
                          ELSE IF ~acc.set THEN [acc EXCEPT !.a = v, !.set = TRUE]
                          ELSE [acc EXCEPT !.a = MinOf(@, v)]
      [] op = OP_MAX   -> IF v = NullI64 THEN acc
                          ELSE IF ~acc.set THEN [acc EXCEPT !.a = v, !.set = TRUE]
                          ELSE [acc EXCEPT !.a = MaxOf(@, v)]
      [] op = OP_COUNT -> IF v = NullI64 THEN acc ELSE [acc EXCEPT !.n = @ + 1]
      [] op = OP_AVG   -> IF v = NullI64 THEN acc
                          ELSE [acc EXCEPT !.a = @ + v, !.n = @ + 1]
      [] op = OP_FIRST -> IF acc.set THEN acc ELSE [acc EXCEPT !.a = v, !.set = TRUE]
      [] op = OP_LAST  -> [acc EXCEPT !.a = v, !.set = TRUE]
      [] OTHER         -> acc

\* The value a group's accumulator materializes to.  An average is kept as the
\* exact quotient <<sum, count>> (the engine divides on materialize).
AccFinal(op, acc) ==
    CASE op \in {OP_SUM, OP_PROD}             -> acc.a
      [] op \in {OP_MIN, OP_MAX, OP_FIRST, OP_LAST} ->
             IF acc.set THEN acc.a ELSE NullI64
      [] op = OP_COUNT                        -> acc.n
      [] op = OP_AVG                          -> <<acc.a, acc.n>>
      [] OTHER                                -> NullI64

EmptySlot(aggops) ==
    [live |-> FALSE, key |-> <<>>, accs |-> [j \in DOMAIN aggops |-> AccInit(aggops[j])]]

\* Key tuple and aggregate inputs of row i.
KeyAt(keyVecs, i) == [j \in DOMAIN keyVecs |-> keyVecs[j][i]]

SlotUpdate(slot, key, aggops, aggVecs, i) ==
    [live |-> TRUE, key |-> key,
     accs |-> [j \in DOMAIN aggops |-> AccUpdate(aggops[j], slot.accs[j], aggVecs[j][i])]]

\* One output row per live slot: the key values, then one value per aggregate.
SlotRow(slot, aggops) ==
    slot.key \o [j \in DOMAIN aggops |-> AccFinal(aggops[j], slot.accs[j])]

RECURSIVE Materialize(_, _, _, _)
Materialize(slots, aggops, idx, cap) ==
    IF idx >= cap THEN <<>>
    ELSE (IF slots[idx].live THEN <<SlotRow(slots[idx], aggops)>> ELSE <<>>)
         \o Materialize(slots, aggops, idx + 1, cap)

\* ----- direct-array strategy: one slot per possible key value ------------
KeyLo(vec) == CHOOSE x \in Range(vec) : \A y \in Range(vec) : x <= y
KeyHi(vec) == CHOOSE x \in Range(vec) : \A y \in Range(vec) : x >= y
KeyWidth(vec) == IF Len(vec) = 0 THEN 0 ELSE KeyHi(vec) - KeyLo(vec) + 1

RECURSIVE KeyRange(_, _)
KeyRange(keyVecs, j) ==
    IF j = 0 THEN 1 ELSE KeyWidth(keyVecs[j]) * KeyRange(keyVecs, j - 1)

RECURSIVE DirectIndex(_, _, _)
DirectIndex(keyVecs, i, j) ==
    IF j = 0 THEN 0
    ELSE DirectIndex(keyVecs, i, j - 1) * KeyWidth(keyVecs[j])
         + (keyVecs[j][i] - KeyLo(keyVecs[j]))

RECURSIVE DirectAccumulate(_, _, _, _)
DirectAccumulate(keyVecs, aggops, aggVecs, i) ==
    IF i = 0
    THEN [x \in 0..(KeyRange(keyVecs, Len(keyVecs)) - 1) |-> EmptySlot(aggops)]
    ELSE LET slots == DirectAccumulate(keyVecs, aggops, aggVecs, i - 1)
             idx == DirectIndex(keyVecs, i, Len(keyVecs))
         IN [slots EXCEPT ![idx] = SlotUpdate(@, KeyAt(keyVecs, i), aggops, aggVecs, i)]

DirectArrayGroup(keyVecs, aggops, aggVecs) ==
    LET n == Len(keyVecs[1])
    IN Materialize(DirectAccumulate(keyVecs, aggops, aggVecs, n), aggops, 0,
                   KeyRange(keyVecs, Len(keyVecs)))

\* ----- hash-table strategy: open addressing, linear probing --------------
HashCap(n) == 2 * n + 1

RECURSIVE CombinedHash(_, _)
CombinedHash(key, j) ==
    IF j = 0 THEN 7 ELSE (CombinedHash(key, j - 1) * 31 + (key[j] + 16)) % 1024

\* The slot a key lands in: the first slot from its hash bucket on that is
\* empty or holds the same key tuple.
RECURSIVE Probe(_, _, _, _)
Probe(slots, key, idx, cap) ==
    IF ~slots[idx].live \/ slots[idx].key = key THEN idx
    ELSE Probe(slots, key, (idx + 1) % cap, cap)

RECURSIVE HashAccumulate(_, _, _, _)
HashAccumulate(keyVecs, aggops, aggVecs, i) ==
    LET cap == HashCap(Len(keyVecs[1]))
    IN IF i = 0 THEN [x \in 0..(cap - 1) |-> EmptySlot(aggops)]
       ELSE LET slots == HashAccumulate(keyVecs, aggops, aggVecs, i - 1)
                key == KeyAt(keyVecs, i)
                idx == Probe(slots, key, CombinedHash(key, Len(key)) % cap, cap)
            IN [slots EXCEPT ![idx] = SlotUpdate(@, key, aggops, aggVecs, i)]

HashGroup(keyVecs, aggops, aggVecs) ==
    LET n == Len(keyVecs[1])
    IN Materialize(HashAccumulate(keyVecs, aggops, aggVecs, n), aggops, 0, HashCap(n))

\* The executor's dispatch on the physical plan the optimizer chose.  A
\* direct plan whose key range does not fit the slot array runs the hash path.
GroupRows(plan, keyVecs, aggops, aggVecs) ==
    IF plan = "direct" /\ KeyRange(keyVecs, Len(keyVecs)) <= DirectThreshold
    THEN DirectArrayGroup(keyVecs, aggops, aggVecs)
    ELSE HashGroup(keyVecs, aggops, aggVecs)

\* Columns of a list of equally long rows.
RowsToCols(rows, ncols) == [j \in 1..ncols |-> [i \in DOMAIN rows |-> rows[i][j]]]

(***************************************************************************)
(* Query graph: an arena of operator nodes addressed by index.             *)
(***************************************************************************)
Node(op, a, b, name, val, keys, ops, ins) ==
    [op |-> op, a |-> a, b |-> b, name |-> name, val |-> val,
     keys |-> keys, ops |-> ops, ins |-> ins]

Leaf(op, name, val) == Node(op, 0, 0, name, val, <<>>, <<>>, <<>>)
Inner(op, a, b, val) == Node(op, a, b, "", val, <<>>, <<>>, <<>>)

\* Handles of the tables a graph can reference: the bound (left) table and
\* the right table of a join.
BoundHandle == 1
RightHandle == 2

\* Expression trees of the high-level API.
Col(name) == [kind |-> "col", name |-> name]
Lit(vtype, value) == [kind |-> "lit", vtype |-> vtype, value |-> value]
BinOp(op, left, right) == [kind |-> "binop", op |-> op, left |-> left, right |-> right]
Agg(op, arg) == [kind |-> "agg", op |-> op, arg |-> arg]

BinOps == {"add", "sub", "mul", "div", "mod", "eq", "ne", "lt", "le", "gt", "ge",
           "and", "or"}
AggOps == {OP_SUM, OP_AVG, OP_MIN, OP_MAX, OP_COUNT, OP_FIRST, OP_LAST}

Emitted(g, node) == [g |-> g, node |-> node, exc |-> "none"]
EmitFail(g, exc) == [g |-> g, node |-> 0, exc |-> exc]

\* _emit_expr: emit the nodes of an expression tree, children first.
RECURSIVE EmitExpr(_, _)
EmitExpr(g, e) ==
    CASE e.kind = "col" -> Emitted(Append(g, Leaf("scan", e.name, 0)), Len(g) + 1)
      [] e.kind = "lit" ->
            IF e.vtype = "float" THEN Emitted(Append(g, Leaf("const_f64", "", e.value)), Len(g) + 1)
            ELSE IF e.vtype = "bool" THEN Emitted(Append(g, Leaf("const_bool", "", e.value)), Len(g) + 1)
            ELSE IF e.vtype = "int" THEN Emitted(Append(g, Leaf("const_i64", "", e.value)), Len(g) + 1)
            ELSE EmitFail(g, "TypeError")
      [] e.kind = "binop" ->
            LET l == EmitExpr(g, e.left)
            IN IF l.exc # "none" THEN l
               ELSE LET r == EmitExpr(l.g, e.right)
                    IN IF r.exc # "none" THEN r
                       ELSE IF e.op \notin BinOps THEN EmitFail(r.g, "ValueError")
                       ELSE Emitted(Append(r.g, Inner(e.op, l.node, r.node, 0)), Len(r.g) + 1)
      [] e.kind = "agg" ->
            LET x == EmitExpr(g, e.arg)
            IN IF x.exc # "none" THEN x
               ELSE IF e.op \notin AggOps THEN EmitFail(x.g, "ValueError")
               ELSE Emitted(Append(x.g, Inner("reduce", x.node, 0, e.op)), Len(x.g) + 1)
      [] e.kind = "alias" -> EmitExpr(g, e.arg)
      [] OTHER -> EmitFail(g, "ValueError")

\* Variant of EmitKeys that scans the first key column for every key.
RECURSIVE EmitKeysFirstName(_, _, _, _)
EmitKeysFirstName(g, names, filter_pred, i) ==
    IF i = 0 THEN [g |-> g, nodes |-> <<>>]
    ELSE LET prev == EmitKeysFirstName(g, names, filter_pred, i - 1)
             g1 == Append(prev.g, Leaf("scan", names[1], 0))
         IN IF filter_pred # 0
            THEN [g |-> Append(g1, Inner("filter", Len(g1), filter_pred, 0)),
                  nodes |-> Append(prev.nodes, Len(g1) + 1)]
            ELSE [g |-> g1, nodes |-> Append(prev.nodes, Len(g1))]

\* Key scan nodes of a group or sort step, each wrapped in the pending
\* table-level filter predicate when there is one.
RECURSIVE EmitKeys(_, _, _, _)
EmitKeys(g, names, filter_pred, i) ==
    IF i = 0 THEN [g |-> g, nodes |-> <<>>]
    ELSE LET prev == EmitKeys(g, names, filter_pred, i - 1)
             g1 == Append(prev.g, Leaf("scan", names[i], 0))
         IN IF filter_pred # 0
            THEN [g |-> Append(g1, Inner("filter", Len(g1), filter_pred, 0)),
                  nodes |-> Append(prev.nodes, Len(g1) + 1)]
            ELSE [g |-> g1, nodes |-> Append(prev.nodes, Len(g1))]

\* Aggregate expressions decomposed into (opcode, input node).
RECURSIVE EmitAggs(_, _, _, _)
EmitAggs(g, agg_exprs, filter_pred, i) ==
    IF i = 0 THEN [g |-> g, ops |-> <<>>, ins |-> <<>>, exc |-> "none"]
    ELSE LET prev == EmitAggs(g, agg_exprs, filter_pred, i - 1)
         IN IF prev.exc # "none" THEN prev
            ELSE IF agg_exprs[i].kind # "agg" THEN [prev EXCEPT !.exc = "ValueError"]
            ELSE LET x == EmitExpr(prev.g, agg_exprs[i].arg)
                 IN IF x.exc # "none" THEN [prev EXCEPT !.g = x.g, !.exc = x.exc]
                    ELSE IF filter_pred # 0
                    THEN [g |-> Append(x.g, Inner("filter", x.node, filter_pred, 0)),
                          ops |-> Append(prev.ops, agg_exprs[i].op),
                          ins |-> Append(prev.ins, Len(x.g) + 1), exc |-> "none"]
                    ELSE [g |-> x.g, ops |-> Append(prev.ops, agg_exprs[i].op),
                          ins |-> Append(prev.ins, x.node), exc |-> "none"]

\* ctypes refuses a call that passes fewer arguments than the declared
\* argtypes of a cdecl function.
td_sort_op_argtypes == 6
SortCallArgs == 5
CtypesAccepts(nargs, argtypes) == nargs >= argtypes

\* (ctype * n)(*init): a ctypes array of n elements.  More initializers
\* than elements raise IndexError; missing ones are left zero.
CtypesArray(n, init) ==
    IF Len(init) > n THEN [exc |-> "IndexError", arr |-> <<>>]
    ELSE [exc |-> "none", arr |-> [i \in 1..n |-> IF i <= Len(init) THEN init[i] ELSE 0]]

\* One step of Query._execute_ops.  st = [g, current, filter_pred, pinned, exc].
ExecuteOp(op, st) ==
    CASE op.op = "filter" ->
            LET em == EmitExpr(st.g, op.expr)
            IN IF em.exc # "none" THEN [st EXCEPT !.g = em.g, !.exc = em.exc]
               ELSE IF st.current = 0
               THEN [st EXCEPT !.g = em.g, !.filter_pred = em.node]
               ELSE [st EXCEPT !.g = Append(em.g, Inner("filter", st.current, em.node, 0)),
                               !.current = Len(em.g) + 1]
      [] op.op = "group" ->
            LET ks == EmitKeys(st.g, op.keys, st.filter_pred, Len(op.keys))
                ag == EmitAggs(ks.g, op.aggs, st.filter_pred, Len(op.aggs))
            IN IF ag.exc # "none" THEN [st EXCEPT !.g = ag.g, !.exc = ag.exc]
               ELSE [g |-> Append(ag.g, Node("group", 0, 0, "", 0, ks.nodes, ag.ops, ag.ins)),
                     current |-> Len(ag.g) + 1, filter_pred |-> 0,
                     pinned |-> st.pinned + 3, exc |-> "none"]
      [] op.op = "sort" ->
            LET g1 == IF st.current # 0 THEN st.g
                      ELSE Append(st.g, Leaf("const_table", "", BoundHandle))
                table_node == IF st.current # 0 THEN st.current ELSE Len(g1)
                ks == EmitKeys(g1, op.keys, st.filter_pred, Len(op.keys))
                descs_arr == CtypesArray(Len(op.keys),
                                 [i \in DOMAIN op.descs |-> IF op.descs[i] THEN 1 ELSE 0])
                descs == descs_arr.arr
            IN IF descs_arr.exc # "none"
               THEN [g |-> ks.g, current |-> st.current, filter_pred |-> 0,
                     pinned |-> st.pinned, exc |-> descs_arr.exc]
               ELSE IF CtypesAccepts(SortCallArgs, td_sort_op_argtypes)
               THEN [g |-> Append(ks.g, Node("sort", table_node, 0, "", 0, ks.nodes, descs, <<>>)),
                     current |-> Len(ks.g) + 1, filter_pred |-> 0,
                     pinned |-> st.pinned + 2, exc |-> "none"]
               ELSE [g |-> ks.g, current |-> st.current, filter_pred |-> 0,
                     pinned |-> st.pinned + 2, exc |-> "TypeError"]
      [] op.op = "head" ->
            LET g1 == IF st.current # 0 THEN st.g
                      ELSE Append(st.g, Leaf("const_table", "", BoundHandle))
                cur == IF st.current # 0 THEN st.current ELSE Len(g1)
            IN [st EXCEPT !.g = Append(g1, Inner("head", cur, 0, op.n)),
                          !.current = Len(g1) + 1]
      [] op.op = "select" -> [st EXCEPT !.exc = "NotImplementedError"]
      [] OTHER -> st

RECURSIVE ExecuteOpsFrom(_, _, _)
ExecuteOpsFrom(ops, i, st) ==
    IF i > Len(ops) \/ st.exc # "none" THEN st
    ELSE ExecuteOpsFrom(ops, i + 1, ExecuteOp(ops[i], st))

\* Query._execute_ops: walk the recorded ops, emit graph nodes, return the
\* final node; with no current node the bound table itself is the result.
ExecuteOps(ops) ==
    LET st == ExecuteOpsFrom(ops, 1,
                  [g |-> <<>>, current |-> 0, filter_pred |-> 0, pinned |-> 0, exc |-> "none"])
    IN IF st.exc = "none" /\ st.current = 0
       THEN [st EXCEPT !.g = Append(st.g, Leaf("const_table", "", BoundHandle)),
                       !.current = Len(st.g) + 1]
       ELSE st

(***************************************************************************)
(* Sort engine: stable multi-key sort with a direction flag per key.       *)
(***************************************************************************)
\* Row x is ordered strictly before row y on keys j..Len(keyVecs).
RECURSIVE RowBefore(_, _, _, _, _)
RowBefore(keyVecs, descs, x, y, j) ==
    IF j > Len(keyVecs) THEN FALSE
    ELSE LET a == keyVecs[j][x]
             b == keyVecs[j][y]
         IN IF a = b THEN RowBefore(keyVecs, descs, x, y, j + 1)
            ELSE IF descs[j] = 1 THEN a > b ELSE a < b

\* Position at which row x enters the sorted prefix: before the first row
\* that must follow it, else at the end (equal rows keep their input order).
RECURSIVE InsertPos(_, _, _, _, _)
InsertPos(keyVecs, descs, perm, x, p) ==
    IF p > Len(perm) THEN p
    ELSE IF RowBefore(keyVecs, descs, x, perm[p], 1) THEN p
    ELSE InsertPos(keyVecs, descs, perm, x, p + 1)

RECURSIVE SortPerm(_, _, _)
SortPerm(keyVecs, descs, n) ==
    IF n = 0 THEN <<>>
    ELSE LET perm == SortPerm(keyVecs, descs, n - 1)
             p == InsertPos(keyVecs, descs, perm, n, 1)
         IN SubSeq(perm, 1, p - 1) \o <<n>> \o SubSeq(perm, p, Len(perm))

\* A freshly materialized table: every column permuted by the same permutation.
PermuteTable(t, perm) ==
    MkTable(t.names, [j \in DOMAIN t.cols |-> [i \in DOMAIN perm |-> t.cols[j][perm[i]]]])

(***************************************************************************)
(* Join engine: hash index over the right side, probed by each left row.   *)
(***************************************************************************)
JoinCap(nr) == nr + 1

SeqOf(n) == [i \in 1..n |-> i]

\* Chain of bucket b: the right rows whose key tuple hashes to b.
BuildIndex(rkeyVecs, nr) ==
    [b \in 0..(JoinCap(nr) - 1) |->
        SelectSeq(SeqOf(nr),
                  LAMBDA r : CombinedHash(KeyAt(rkeyVecs, r), Len(rkeyVecs)) % JoinCap(nr) = b)]

\* A hash hit counts only when the full key tuples are equal.
JoinKeyEq(lkey, rkey) == lkey = rkey

ProbeRow(index, lkeyVecs, rkeyVecs, nr, l) ==
    LET lkey == KeyAt(lkeyVecs, l)
        chain == index[CombinedHash(lkey, Len(lkey)) % JoinCap(nr)]
    IN SelectSeq(chain, LAMBDA r : JoinKeyEq(lkey, KeyAt(rkeyVecs, r)))

\* Output pairs <<left row, right row>>; right row 0 is the all-null right side.
RECURSIVE JoinPairs(_, _, _, _, _, _)
JoinPairs(index, lkeyVecs, rkeyVecs, nr, kind, l) ==
    IF l = 0 THEN <<>>
    ELSE LET m == ProbeRow(index, lkeyVecs, rkeyVecs, nr, l)
             out == IF Len(m) > 0 THEN [x \in DOMAIN m |-> <<l, m[x]>>]
                    ELSE IF kind = 1 THEN << <<l, 0>> >> ELSE <<>>
         IN JoinPairs(index, lkeyVecs, rkeyVecs, nr, kind, l - 1) \o out

JoinTable(lt, rt, pairs) ==
    MkTable(lt.names \o rt.names,
            [j \in DOMAIN lt.cols |-> [p \in DOMAIN pairs |-> lt.cols[j][pairs[p][1]]]]
            \o [j \in DOMAIN rt.cols |->
                  [p \in DOMAIN pairs |->
                      IF pairs[p][2] = 0 THEN NullI64 ELSE rt.cols[j][pairs[p][2]]]])

(***************************************************************************)
(* Executor: bottom-up evaluation of the graph below a root node.          *)
(***************************************************************************)
MkAtom(v) == [kind |-> "atom", names |-> <<>>, cols |-> <<>>, data |-> <<v>>]

\* Elementwise operators on two scalars; the null sentinel propagates
\* through arithmetic.
ElemOp(op, x, y) ==
    CASE op = "eq" -> x = y
      [] op = "ne" -> x # y
      [] op = "lt" -> x < y
      [] op = "le" -> x <= y
      [] op = "gt" -> x > y
      [] op = "ge" -> x >= y
      [] op = "and" -> x /\ y
      [] op = "or" -> x \/ y
      [] op \in {"add", "sub", "mul", "div", "mod"} ->
            IF x = NullI64 \/ y = NullI64 THEN NullI64
            ELSE CASE op = "add" -> x + y
                   [] op = "sub" -> x - y
                   [] op = "mul" -> x * y
                   [] op = "div" -> IF y = 0 THEN NullI64 ELSE x \div y
                   [] OTHER -> IF y = 0 THEN NullI64 ELSE x % y

ElemAt(v, i) == IF v.kind = "atom" THEN v.data[1] ELSE v.data[i]

\* A whole column in one pass; an atom operand is broadcast.
EvalBinary(op, l, r) ==
    IF l.kind \notin {"vec", "atom"} \/ r.kind \notin {"vec", "atom"} THEN ErrVal
    ELSE IF l.kind = "vec" /\ r.kind = "vec" /\ Len(l.data) # Len(r.data) THEN ErrVal
    ELSE IF l.kind = "atom" /\ r.kind = "atom"
    THEN MkAtom(ElemOp(op, l.data[1], r.data[1]))
    ELSE LET n == IF l.kind = "vec" THEN Len(l.data) ELSE Len(r.data)
         IN MkVec([i \in 1..n |-> ElemOp(op, ElemAt(l, i), ElemAt(r, i))])

\* Positions of the rows a boolean predicate vector keeps, in input order.
KeptRows(p) == SelectSeq(SeqOf(Len(p)), LAMBDA i : p[i])

EvalFilter(x, p) ==
    IF p.kind # "vec" THEN ErrVal
    ELSE IF x.kind = "vec"
    THEN IF Len(x.data) # Len(p.data) THEN ErrVal
         ELSE MkVec([i \in DOMAIN KeptRows(p.data) |-> x.data[KeptRows(p.data)[i]]])
    ELSE IF x.kind = "table"
    THEN IF NRows(x) # Len(p.data) THEN ErrVal ELSE PermuteTable(x, KeptRows(p.data))
    ELSE ErrVal

\* Head: the first n rows (a prefix slice of every column).
EvalHead(x, n) ==
    IF x.kind = "table" THEN PermuteTable(x, SeqOf(MinOf(MaxOf(n, 0), NRows(x))))
    ELSE IF x.kind = "vec" THEN MkVec(SubSeq(x.data, 1, MinOf(MaxOf(n, 0), Len(x.data))))
    ELSE ErrVal

RECURSIVE ReduceVec(_, _, _)
ReduceVec(op, data, i) ==
    IF i = 0 THEN AccInit(op) ELSE AccUpdate(op, ReduceVec(op, data, i - 1), data[i])

AggSuffix(op) ==
    CASE op = OP_SUM -> "_sum" [] op = OP_PROD -> "_prod" [] op = OP_MIN -> "_min"
      [] op = OP_MAX -> "_max" [] op = OP_COUNT -> "_count" [] op = OP_AVG -> "_mean"
      [] op = OP_FIRST -> "_first" [] op = OP_LAST -> "_last" [] OTHER -> "_agg"

\* Name of the column a node reads (through filters), for output naming.
RECURSIVE NodeName(_, _)
NodeName(g, id) ==
    IF g[id].op \in {"scan", "const_vec"} THEN g[id].name
    ELSE IF g[id].op = "filter" THEN NodeName(g, g[id].a)
    ELSE "expr"

AllVecs(vals) ==
    /\ \A j \in DOMAIN vals : vals[j].kind = "vec"
    /\ \A j, k \in DOMAIN vals : Len(vals[j].data) = Len(vals[k].data)

DataOf(vals) == [j \in DOMAIN vals |-> vals[j].data]

\* Eval(g, id, plan, tables): the value of node id.  plan is the physical
\* aggregation strategy the optimizer chose; tables maps handles to tables.
\* Any failing input fails the node (no partial output).
RECURSIVE Eval(_, _, _, _)
Eval(g, id, plan, tables) ==
    LET nd == g[id]
    IN CASE nd.op = "scan" ->
              IF HasCol(tables[BoundHandle], nd.name)
              THEN MkVec(ColData(tables[BoundHandle], nd.name)) ELSE ErrVal
         [] nd.op \in {"const_i64", "const_f64", "const_bool"} -> MkAtom(nd.val)
         [] nd.op = "const_table" -> tables[nd.val]
         [] nd.op = "const_vec" -> MkVec(ColData(tables[nd.val], nd.name))
         [] nd.op \in BinOps ->
              EvalBinary(nd.op, Eval(g, nd.a, plan, tables), Eval(g, nd.b, plan, tables))
         [] nd.op = "filter" ->
              EvalFilter(Eval(g, nd.a, plan, tables), Eval(g, nd.b, plan, tables))
         [] nd.op = "head" -> EvalHead(Eval(g, nd.a, plan, tables), nd.val)
         [] nd.op = "reduce" ->
              LET x == Eval(g, nd.a, plan, tables)
              IN IF x.kind # "vec" THEN ErrVal
                 ELSE MkAtom(AccFinal(nd.val, ReduceVec(nd.val, x.data, Len(x.data))))
         [] nd.op = "group" ->
              LET kv == [j \in DOMAIN nd.keys |-> Eval(g, nd.keys[j], plan, tables)]
                  iv == [j \in DOMAIN nd.ins |-> Eval(g, nd.ins[j], plan, tables)]
              IN IF Len(kv) = 0 \/ ~AllVecs(kv \o iv) THEN ErrVal
                 ELSE MkTable([j \in DOMAIN nd.keys |-> NodeName(g, nd.keys[j])]
                              \o [j \in DOMAIN nd.ins |->
                                     NodeName(g, nd.ins[j]) \o AggSuffix(nd.ops[j])],
                              RowsToCols(GroupRows(plan, DataOf(kv), nd.ops, DataOf(iv)),
                                         Len(kv) + Len(iv)))
         [] nd.op = "sort" ->
              LET t == Eval(g, nd.a, plan, tables)
                  kv == [j \in DOMAIN nd.keys |-> Eval(g, nd.keys[j], plan, tables)]
              IN IF t.kind # "table" \/ Len(kv) = 0 \/ ~AllVecs(kv) THEN ErrVal
                 ELSE IF Len(kv[1].data) # NRows(t) THEN ErrVal
                 ELSE PermuteTable(t, SortPerm(DataOf(kv), nd.ops, NRows(t)))
         [] nd.op = "join" ->
              LET lt == Eval(g, nd.a, plan, tables)
                  rt == Eval(g, nd.b, plan, tables)
                  lk == [j \in DOMAIN nd.keys |-> Eval(g, nd.keys[j], plan, tables)]
                  rk == [j \in DOMAIN nd.ins |-> Eval(g, nd.ins[j], plan, tables)]
              IN IF lt.kind # "table" \/ rt.kind # "table" \/ Len(lk) = 0
                    \/ Len(lk) # Len(rk) \/ ~AllVecs(lk) \/ ~AllVecs(rk) THEN ErrVal
                 ELSE IF Len(lk[1].data) # NRows(lt) \/ Len(rk[1].data) # NRows(rt) THEN ErrVal
                 ELSE JoinTable(lt, rt,
                          JoinPairs(BuildIndex(DataOf(rk), NRows(rt)), DataOf(lk), DataOf(rk),
                                    NRows(rt), nd.val, NRows(lt)))
         [] OTHER -> ErrVal

(***************************************************************************)
(* State of one high-level API call (Query.collect, Table.join, or the     *)
(* run_sort script) and of the graph it builds.                            *)
(***************************************************************************)
VARIABLES
    tbl,          \* the table the call is made on (self._ptr)
    rtbl,         \* the right table of a join
    call,         \* the entry point and its arguments
    ops,          \* Query._ops, the recorded lazy steps
    g,            \* nodes of the graph, in creation order
    root,         \* node handed to optimize / execute
    plan,         \* physical aggregation strategy chosen by optimize
    result_ptr,   \* what execute returned: 0, an error code, or a handle
    result,       \* the value behind result_ptr
    returned,     \* the Table handed back to the caller, if any
    outcome,      \* "none", "Table", or the exception raised
    pc,           \* position of the call
    gLive,        \* the graph exists (graph_new done, graph_free not yet)
    gFrees        \* number of graph_free calls

queryVars == <<tbl, rtbl, call, ops, g, root, plan, result_ptr, result, returned,
               outcome, pc, gLive, gFrees>>

VARIABLES
    heap,         \* reference-counted values of the engine, by handle
    h,            \* handles the program holds: source table, head / partition table
    held,         \* which of those handles the program has not released yet
    fs,           \* splay directories on disk
    ctx           \* worker pool, symbol table and arena of the context

sysVars == <<heap, h, held, fs, ctx>>

VARIABLES
    sym,          \* the process-wide symbol table and the calls in flight on it
    run,          \* the PipelineExecutor.run call: its pipeline, position and locals
    cache,        \* _session_cache: session id -> results, in insertion order
    store,        \* the projects directory of the ProjectStore, by slug
    pinned        \* number of ctypes arrays of the call that Python still references

VARIABLES
    ex,           \* the executor inside one execute call: values computed so far
    ws,           \* one /ws/run connection: its sender loop and what the client got
    sse,          \* one /run-stream response: worker thread, event queue, generator
    po,           \* the per-partition open loop of the partitioned benchmark
    thr           \* executor threads running concurrently on the session cache

moreVars == <<ex, ws, sse, po, thr>>
exRest == <<queryVars, sysVars, sym, run, cache, store, pinned, ws, sse, po, thr>>
wsRest == <<queryVars, sysVars, sym, run, cache, store, pinned, ex, sse, po, thr>>
sseRest == <<queryVars, sysVars, sym, run, cache, store, pinned, ex, ws, po, thr>>
poRest == <<queryVars, sysVars, sym, run, cache, store, pinned, ex, ws, sse, thr>>
thrRest == <<queryVars, sysVars, sym, run, store, pinned, ex, ws, sse, po>>
extRest == <<sym, run, cache, store, moreVars>>
extVars == <<extRest, pinned>>
vars == <<queryVars, sysVars, extVars>>

NoHandles == [T |-> 0, head |-> 0, part |-> 0]
NoCtx == [pool |-> "none", sym |-> "none", arena |-> "none", busy |-> {}, filled |-> {},
          order |-> <<>>]

\* Callers of the symbol table.
SymWorkers == {1, 2}
IdleCall == [pc |-> "idle", s |-> <<>>, key |-> <<>>, calls |-> 0]

\* The symbol table after sym_init: no entry, nobody holds the write lock.
NoSym == [tab |-> <<>>, count |-> 0, lock |-> 0, w |-> [x \in SymWorkers |-> IdleCall],
          seen |-> {}, obs |-> {}]

\* A dict with no key.
EmptyMap == [x \in {} |-> "out"]

\* No pipeline was submitted.
NoRun == [nodes |-> <<>>, edges |-> <<>>, pc |-> "idle", session_id |-> "", start_from |-> "",
          order |-> <<>>, start_idx |-> 0, idx |-> 0, results |-> EmptyMap, events |-> <<>>,
          exc |-> "none"]

\* No meta.json; no directory under projects/.
NoMeta == [name |-> <<>>, slug |-> <<>>, created_at |-> 0]
NoProject == [exists |-> FALSE, meta |-> NoMeta, pipelines |-> "none", dashboards |-> "none"]
NoStore == [x \in {} |-> NoProject]

\* The executor before execute is called: nothing evaluated.
NoExec == [vals |-> <<>>, order |-> <<>>]

\* No connection, no stream, no partitioned database, no thread.
NoWs == [pc |-> "none", taken |-> 0, msg |-> <<>>, done |-> FALSE, sent |-> <<>>]
NoSse == [pc |-> "none", thread |-> "none", tail |-> <<>>, taken |-> 0, out |-> <<>>]
NoPo == [pc |-> "none"]
NoThr == <<>>

MoreIdle == ex = NoExec /\ ws = NoWs /\ sse = NoSse /\ po = NoPo /\ thr = NoThr

ExtIdle ==
    /\ sym = NoSym /\ run = NoRun /\ cache = <<>> /\ store = NoStore /\ pinned = 0
    /\ MoreIdle

\* The state of the subsystems a query call does not touch.
SysIdle ==
    /\ heap = <<>>
    /\ h = NoHandles
    /\ held = {}
    /\ fs = <<>>
    /\ ctx = NoCtx
    /\ ExtIdle


NoTable == [kind |-> "none", names |-> <<>>, cols |-> <<>>, data |-> <<>>]

\* Pointer execute returns for a materialized value.
ResultPtr == MinHandle + 32

\* Error sentinels execute can return: NULL and codes below MinHandle.
ErrCodes == {0, 1, MinHandle - 1}

\* Variant of IsFailure that only recognizes the null handle.
IsFailureNullOnly(ptr) == ptr = 0

\* The table-valued result check of collect / join: `not ptr or ptr < 32`.
IsFailure(ptr) == ptr = 0 \/ ptr < MinHandle

HasGroupNode(gr) == \E i \in DOMAIN gr : gr[i].op = "group"

\* Graph construction for a call that raised before execute: the graph is
\* freed by the finally clause and the exception propagates.
\* Variant of Raise that lets the exception leave without freeing the graph.
RaiseNoFree(exc, nodes) ==
    /\ g' = nodes
    /\ outcome' = exc
    /\ pc' = "done"
    /\ UNCHANGED <<root, plan, result_ptr, result, returned, gLive, gFrees>>

Raise(exc, nodes) ==
    /\ g' = nodes
    /\ outcome' = exc
    /\ pc' = "done"
    /\ gLive' = FALSE
    /\ gFrees' = gFrees + 1
    /\ UNCHANGED <<root, plan, result_ptr, result, returned>>

\* TeideLib.sort_op / group / join build their ctypes arrays as locals and
\* return the node: no array is referenced once the wrapper has returned.
WrapperPinned == 0

Built(nodes, rootNode) ==
    /\ g' = nodes
    /\ root' = rootNode
    /\ pc' = "built"
    /\ gLive' = TRUE
    /\ UNCHANGED <<plan, result_ptr, result, returned, outcome, gFrees>>

\* Query.collect, first half: graph_new and _execute_ops.
CollectBuild ==
    /\ pc = "start"
    /\ call.fn = "collect"
    /\ LET st == ExecuteOps(ops)
       IN /\ IF st.exc # "none" THEN Raise(st.exc, st.g) ELSE Built(st.g, st.current)
          /\ pinned' = IF st.exc # "none" THEN 0 ELSE st.pinned
    /\ UNCHANGED <<sysVars, extRest, tbl, rtbl, call, ops>>

\* optimize(graph, root): picks the aggregation strategy from a cardinality
\* estimate, which may be wrong in either direction.
Optimize ==
    /\ pc = "built"
    /\ \E est \in {1, DirectThreshold + 1} :
          plan' = IF ~HasGroupNode(g) THEN "none"
                  ELSE IF est <= DirectThreshold THEN "direct" ELSE "hash"
    /\ pc' = "optimized"
    /\ UNCHANGED <<sysVars, extVars, tbl, rtbl, call, ops, g, root, result_ptr, result, returned,
                   outcome, gLive, gFrees>>

\* execute(graph, root): a materialized value, or an error sentinel and no
\* output at all when any node below the root fails.
Execute ==
    /\ pc = "optimized"
    /\ LET v == Eval(g, root, plan, <<tbl, rtbl>>)
       IN IF v.kind = "err"
          THEN /\ result_ptr' \in ErrCodes
               /\ result' = ErrVal
          ELSE /\ result_ptr' = ResultPtr
               /\ result' = v
    /\ pc' = "executed"
    /\ UNCHANGED <<sysVars, extVars, tbl, rtbl, call, ops, g, root, plan, returned, outcome, gLive, gFrees>>

\* Query.collect, second half: check the handle, wrap it, free the graph.
CollectReturn ==
    /\ pc = "executed"
    /\ call.fn = "collect"
    /\ IF IsFailure(result_ptr)
       THEN outcome' = "RuntimeError" /\ returned' = NoTable
       ELSE outcome' = "Table" /\ returned' = result
    /\ pc' = "done"
    /\ gLive' = FALSE
    /\ gFrees' = gFrees + 1
    /\ pinned' = 0
    /\ UNCHANGED <<sysVars, extRest, tbl, rtbl, call, ops, g, root, plan, result_ptr, result>>

(***************************************************************************)
(* Inputs: tables with two key columns (symbol ids) and a value column     *)
(* that may hold the null sentinel.                                        *)
(***************************************************************************)
KeyVals == {0, 1}
ValVals == {NullI64, 1, 2}

TablesOfLen(n) ==
    {MkTable(<<"id1", "id2", "v">>, <<c1, c2, c3>>) :
        c1 \in [1..n -> KeyVals], c2 \in [1..n -> KeyVals], c3 \in [1..n -> ValVals]}

Tables == UNION {TablesOfLen(n) : n \in 0..MaxRows}

EmptyRight == MkTable(<<>>, <<>>)

CollectCall == [fn |-> "collect", on |-> <<>>, how |-> "", descs |-> <<>>]

GroupKeyChoices == {<<"id1">>, <<"id1", "id2">>}
AggChoices == {<<Agg(OP_SUM, Col("v"))>>,
               <<Agg(OP_MIN, Col("v")), Agg(OP_MAX, Col("v"))>>,
               <<Agg(OP_COUNT, Col("v")), Agg(OP_AVG, Col("v"))>>,
               <<Agg(OP_FIRST, Col("v")), Agg(OP_LAST, Col("v"))>>}

GroupOp(keys, aggs) == [op |-> "group", keys |-> keys, aggs |-> aggs]

CallStart ==
    /\ g = <<>>
    /\ root = 0
    /\ plan = "none"
    /\ result_ptr = 0
    /\ result = NoTable
    /\ returned = NoTable
    /\ outcome = "none"
    /\ pc = "start"
    /\ gLive = FALSE
    /\ gFrees = 0

\* ----- group_by(keys).agg(aggs).collect() ------------------------------
InitGroup ==
    /\ tbl \in Tables
    /\ rtbl = EmptyRight
    /\ call = CollectCall
    /\ \E keys \in GroupKeyChoices, aggs \in AggChoices : ops = <<GroupOp(keys, aggs)>>
    /\ CallStart
    /\ SysIdle

NextGroup == CollectBuild \/ Optimize \/ Execute \/ CollectReturn

SpecGroup == InitGroup /\ [][NextGroup]_vars

\* The key and aggregate-input vectors a group step asks for, read from the
\* bound table.
RequestedKeys(t, op) == [j \in DOMAIN op.keys |-> ColData(t, op.keys[j])]
RequestedIns(t, op) == [j \in DOMAIN op.aggs |-> ColData(t, op.aggs[j].arg.name)]
RequestedOps(op) == [j \in DOMAIN op.aggs |-> op.aggs[j].op]

\* C1: whichever strategy the optimizer selects, the rows a Group returns are,
\* as a multiset, the rows of the direct-array strategy and the rows of the
\* hash-table strategy on the requested keys and aggregates (empty input and
\* every-row-its-own-group included).
C1_GroupStrategiesAgree ==
    (pc = "done" /\ ops # <<>> /\ ops[1].op = "group") =>
        /\ outcome = "Table"
        /\ SeqToBag(RowsOf(returned))
             = SeqToBag(DirectArrayGroup(RequestedKeys(tbl, ops[1]), RequestedOps(ops[1]),
                                         RequestedIns(tbl, ops[1])))
        /\ SeqToBag(RowsOf(returned))
             = SeqToBag(HashGroup(RequestedKeys(tbl, ops[1]), RequestedOps(ops[1]),
                                  RequestedIns(tbl, ops[1])))

\* A mis-predicted composite-key grouping in which every row is its own group.
C1_Witness ==
    /\ pc = "done" /\ ops # <<>> /\ ops[1].op = "group" /\ outcome = "Table"
    /\ plan = "direct"
    /\ Len(ops[1].keys) = 2
    /\ NRows(tbl) = 2 /\ NRows(returned) = 2

(***************************************************************************)
(* Table.join(right, on, how)                                              *)
(***************************************************************************)
\* Variant of JoinType that maps every `how` to the inner join.
JoinTypeAlwaysInner(how) == 0

\* {"inner": 0, "left": 1}.get(how, 0)
JoinType(how) == IF how = "left" THEN 1 ELSE 0

\* Variants of the key-node builders that use the first key for every position.
LeftKeyNodesFirstKey(on) == [i \in DOMAIN on |-> Leaf("scan", on[1], 0)]
RightKeyNodesFirstKey(on) == [i \in DOMAIN on |-> Leaf("const_vec", on[1], RightHandle)]

\* left_keys = [scan(g, k) for k in on]
LeftKeyNodes(on) == [i \in DOMAIN on |-> Leaf("scan", on[i], 0)]

\* right_keys = [const_vec(g, right[k]._ptr) for k in on]
RightKeyNodes(on) == [i \in DOMAIN on |-> Leaf("const_vec", on[i], RightHandle)]

\* The graph Table.join builds; right[k] raises KeyError for a key column the
\* right table does not have.
JoinGraph(right, on, how) ==
    LET tabs == <<Leaf("const_table", "", BoundHandle), Leaf("const_table", "", RightHandle)>>
        g1 == tabs \o LeftKeyNodes(on)
        g2 == g1 \o RightKeyNodes(on)
        n == Len(on)
    IN IF \E i \in DOMAIN on : ~HasCol(right, on[i])
       THEN [g |-> g1, root |-> 0, exc |-> "KeyError"]
       ELSE [g |-> Append(g2, Node("join", 1, 2, "", JoinType(how),
                                   [i \in 1..n |-> 2 + i], <<>>, [i \in 1..n |-> 2 + n + i])),
             root |-> Len(g2) + 1, exc |-> "none"]

JoinBuild ==
    /\ pc = "start"
    /\ call.fn = "join"
    /\ LET jg == JoinGraph(rtbl, call.on, call.how)
       IN IF jg.exc # "none" THEN Raise(jg.exc, jg.g) ELSE Built(jg.g, jg.root)
    /\ pinned' = WrapperPinned
    /\ UNCHANGED <<sysVars, extRest, tbl, rtbl, call, ops>>

JoinReturn ==
    /\ pc = "executed"
    /\ call.fn = "join"
    /\ IF IsFailure(result_ptr)
       THEN outcome' = "RuntimeError" /\ returned' = NoTable
       ELSE outcome' = "Table" /\ returned' = result
    /\ pc' = "done"
    /\ gLive' = FALSE
    /\ gFrees' = gFrees + 1
    /\ pinned' = 0
    /\ UNCHANGED <<sysVars, extRest, tbl, rtbl, call, ops, g, root, plan, result_ptr, result>>

\* Join inputs: key columns id1, id2 and one payload column that numbers the
\* rows (v on the left, w on the right).
JoinTablesOfLen(n, payload, base) ==
    {MkTable(<<"id1", "id2", payload>>, <<c1, c2, [i \in 1..n |-> base + i]>>) :
        c1 \in [1..n -> KeyVals], c2 \in [1..n -> KeyVals]}

LeftTables == UNION {JoinTablesOfLen(n, "v", 0) : n \in 0..MaxRows}
RightTables == UNION {JoinTablesOfLen(n, "w", 10) : n \in 0..MaxRows}

OnChoices == {<<"id1">>, <<"id1", "id2">>, <<"v">>, <<"w">>}
HowChoices == {"inner", "left", "outer"}

InitJoin ==
    /\ tbl \in LeftTables
    /\ rtbl \in RightTables
    /\ \E on \in OnChoices, how \in HowChoices :
          call = [fn |-> "join", on |-> on, how |-> how, descs |-> <<>>]
    /\ ops = <<>>
    /\ CallStart
    /\ SysIdle

NextJoin == JoinBuild \/ Optimize \/ Execute \/ JoinReturn

SpecJoin == InitJoin /\ [][NextJoin]_vars

\* Left and right rows whose key tuples are equal in every key position.
KeysMatch(lt, rt, on, l, r) ==
    \A i \in DOMAIN on : ColData(lt, on[i])[l] = ColData(rt, on[i])[r]

Unmatched(lt, rt, on) ==
    {l \in 1..NRows(lt) : \A r \in 1..NRows(rt) : ~KeysMatch(lt, rt, on, l, r)}

MatchedPairs(lt, rt, on) ==
    {<<l, r>> \in (1..NRows(lt)) \X (1..NRows(rt)) : KeysMatch(lt, rt, on, l, r)}

NullRow(rt) == [j \in DOMAIN rt.cols |-> NullI64]

\* Number of output rows equal to row x.
Count(t, x) == Cardinality({i \in 1..NRows(t) : RowAt(t, i) = x})

JoinDone(on) == pc = "done" /\ call.fn = "join" /\ call.on = on /\ outcome = "Table"

\* C3: an inner join emits exactly one row per (left, right) pair with equal
\* key tuples -- the full cross product for duplicate keys, nothing for a left
\* row without a match, and never a pair that only collides in the hash.
C3_InnerJoinPairs ==
    \A on \in {<<"id1">>, <<"id1", "id2">>} :
        (JoinDone(on) /\ call.how = "inner") =>
            /\ NRows(returned) = Cardinality(MatchedPairs(tbl, rtbl, on))
            /\ \A p \in MatchedPairs(tbl, rtbl, on) :
                  Count(returned, RowAt(tbl, p[1]) \o RowAt(rtbl, p[2])) = 1

\* C4: a left join emits the inner join's rows plus exactly one row per
\* unmatched left row, whose right-side columns all hold the null sentinel;
\* with an empty right table inner yields no rows and left yields the left
\* rows with null right columns.
C4_LeftJoinRows ==
    \A on \in {<<"id1">>, <<"id1", "id2">>} :
        /\ (JoinDone(on) /\ call.how = "left") =>
              /\ NRows(returned)
                   = Cardinality(MatchedPairs(tbl, rtbl, on))
                     + Cardinality(Unmatched(tbl, rtbl, on))
              /\ \A p \in MatchedPairs(tbl, rtbl, on) :
                    Count(returned, RowAt(tbl, p[1]) \o RowAt(rtbl, p[2])) = 1
              /\ \A l \in Unmatched(tbl, rtbl, on) :
                    Count(returned, RowAt(tbl, l) \o NullRow(rtbl)) = 1
        /\ (JoinDone(on) /\ call.how = "inner" /\ NRows(rtbl) = 0) => NRows(returned) = 0

\* An inner join with duplicate keys on the right and an unmatched left row.
C3_Witness ==
    /\ JoinDone(<<"id1", "id2">>) /\ call.how = "inner"
    /\ Cardinality(MatchedPairs(tbl, rtbl, call.on)) >= 2
    /\ Unmatched(tbl, rtbl, call.on) # {}

\* A left join with both a matched and an unmatched left row.
C4_Witness ==
    /\ JoinDone(<<"id1", "id2">>) /\ call.how = "left"
    /\ MatchedPairs(tbl, rtbl, call.on) # {}
    /\ Unmatched(tbl, rtbl, call.on) # {}
    /\ \E i \in 1..NRows(returned) : RowAt(returned, i)[6] = NullI64

\* The row count Table.join returns for the same inputs with another `how`.
JoinRowCount(lt, rt, on, how) ==
    LET jg == JoinGraph(rt, on, how)
    IN NRows(Eval(jg.g, jg.root, "none", <<lt, rt>>))

\* C5: the inner join never has more rows than the left join of the same
\* inputs, and the left join has matched pairs + unmatched left rows.
C5_JoinCardinality ==
    \A on \in {<<"id1">>, <<"id1", "id2">>} :
        (JoinDone(on) /\ call.how = "left") =>
            /\ JoinRowCount(tbl, rtbl, on, "inner") <= NRows(returned)
            /\ NRows(returned) = Cardinality(MatchedPairs(tbl, rtbl, on))
                                 + Cardinality(Unmatched(tbl, rtbl, on))

\* A left join strictly larger than the inner join of the same inputs.
C5_Witness ==
    /\ JoinDone(<<"id1">>) /\ call.how = "left"
    /\ JoinRowCount(tbl, rtbl, call.on, "inner") >= 2
    /\ JoinRowCount(tbl, rtbl, call.on, "inner") < NRows(returned)

(***************************************************************************)
(* Sorting: Query.sort(...).collect() and the benchmark's run_sort, which  *)
(* goes through TeideLib.sort_op.                                          *)
(***************************************************************************)
SortOpArgs == 6

\* run_sort's graph: const_table, one scan per key column, TeideLib.sort_op.
RunSortGraph(col_names, descs) ==
    LET g1 == <<Leaf("const_table", "", BoundHandle)>>
               \o [i \in DOMAIN col_names |-> Leaf("scan", col_names[i], 0)]
        n == Len(col_names)
        descs_arr == CtypesArray(n, descs)
    IN IF descs_arr.exc # "none" THEN [g |-> g1, root |-> 0, exc |-> descs_arr.exc]
       ELSE IF CtypesAccepts(SortOpArgs, td_sort_op_argtypes)
       THEN [g |-> Append(g1, Node("sort", 1, 0, "", 0, [i \in 1..n |-> 1 + i],
                                   descs_arr.arr, <<>>)),
             root |-> n + 2, exc |-> "none"]
       ELSE [g |-> g1, root |-> 0, exc |-> "TypeError"]

RunSortBuild ==
    /\ pc = "start"
    /\ call.fn = "run_sort"
    /\ LET sg == RunSortGraph(call.on, call.descs)
       IN IF sg.exc # "none" THEN Raise(sg.exc, sg.g) ELSE Built(sg.g, sg.root)
    /\ pinned' = WrapperPinned
    /\ UNCHANGED <<sysVars, extRest, tbl, rtbl, call, ops>>

\* run_sort after execute: FAILED on a sentinel, else the row and column
\* counts of the result are read before it is released.
RunSortReturn ==
    /\ pc = "executed"
    /\ call.fn = "run_sort"
    /\ IF IsFailure(result_ptr)
       THEN outcome' = "FAILED" /\ returned' = NoTable
       ELSE outcome' = "Table" /\ returned' = result
    /\ pc' = "done"
    /\ gLive' = FALSE
    /\ gFrees' = gFrees + 1
    /\ pinned' = 0
    /\ UNCHANGED <<sysVars, extRest, tbl, rtbl, call, ops, g, root, plan, result_ptr, result>>

SortKeyChoices == {<<"id1">>, <<"id1", "v">>}

\* Query.sort(*cols, descending=d): one flag for every column.
SortOp(cols, descending) ==
    [op |-> "sort", keys |-> cols, descs |-> [i \in DOMAIN cols |-> descending]]

InitSort ==
    /\ tbl \in Tables
    /\ rtbl = EmptyRight
    /\ \E cols \in SortKeyChoices, d \in BOOLEAN :
          \/ call = CollectCall /\ ops = <<SortOp(cols, d)>>
          \/ /\ call = [fn |-> "run_sort", on |-> cols, how |-> "",
                        descs |-> [i \in DOMAIN cols |-> IF (i = 1) = d THEN 1 ELSE 0]]
             /\ ops = <<>>
    /\ CallStart
    /\ SysIdle

NextSort == CollectBuild \/ RunSortBuild \/ Optimize \/ Execute \/ RunSortReturn

SpecSort == InitSort /\ [][NextSort]_vars

SortCols == IF call.fn = "run_sort" THEN call.on ELSE ops[1].keys
SortDescs ==
    IF call.fn = "run_sort" THEN call.descs
    ELSE [i \in DOMAIN ops[1].descs |-> IF ops[1].descs[i] THEN 1 ELSE 0]

Perms(n) == {f \in [1..n -> 1..n] : \A i, j \in 1..n : f[i] = f[j] => i = j}

\* out is inp reordered by a permutation that respects the key order and
\* keeps rows with equal key tuples in input order.
IsStableSort(inp, out, cols, descs) ==
    LET kv == [j \in DOMAIN cols |-> ColData(inp, cols[j])]
    IN \E perm \in Perms(NRows(inp)) :
          /\ out = PermuteTable(inp, perm)
          /\ \A i, j \in 1..NRows(inp) :
                i < j => /\ ~RowBefore(kv, descs, perm[j], perm[i], 1)
                         /\ (~RowBefore(kv, descs, perm[i], perm[j], 1) => perm[i] < perm[j])

SortRequested ==
    pc = "done" /\ (call.fn = "run_sort" \/ (call.fn = "collect" /\ ops # <<>> /\ ops[1].op = "sort"))

\* C2: a sort returns a table holding exactly the input rows, ordered by the
\* key columns with their directions, equal-key rows in input order.
C2_SortIsStablePermutation ==
    SortRequested => /\ outcome = "Table"
                     /\ IsStableSort(tbl, returned, SortCols, SortDescs)

\* The same contract for the calls that reach the engine through TeideLib.sort_op.
RunSortIsStablePermutation ==
    (SortRequested /\ call.fn = "run_sort") =>
        /\ outcome = "Table"
        /\ IsStableSort(tbl, returned, SortCols, SortDescs)

(***************************************************************************)
(* Query.collect() over filter / head / group / select pipelines.          *)
(***************************************************************************)
FilterOp(expr) == [op |-> "filter", expr |-> expr]
HeadOp(n) == [op |-> "head", n |-> n]
SelectOp == [op |-> "select"]

PredGt == BinOp("gt", Col("v"), Lit("int", 1))
PredEq == BinOp("eq", Col("id1"), Lit("int", 0))
PredMissing == BinOp("gt", Col("zz"), Lit("int", 1))
PredStr == BinOp("eq", Col("id1"), Lit("str", 0))

SumV == <<Agg(OP_SUM, Col("v"))>>

Pipelines ==
    {<<>>, <<FilterOp(PredGt)>>, <<FilterOp(PredEq)>>, <<FilterOp(PredMissing)>>,
     <<FilterOp(PredStr)>>, <<HeadOp(1)>>, <<HeadOp(1), FilterOp(PredGt)>>,
     <<HeadOp(1), FilterOp(PredMissing)>>, <<FilterOp(PredGt), GroupOp(<<"id1">>, SumV)>>,
     <<GroupOp(<<"zz">>, SumV)>>, <<GroupOp(<<"id1">>, <<Agg(OP_SUM, Col("zz"))>>)>>,
     <<GroupOp(<<"id1">>, <<Col("v")>>)>>, <<SelectOp>>}

InitCollect ==
    /\ tbl \in Tables
    /\ rtbl = EmptyRight
    /\ call = CollectCall
    /\ ops \in Pipelines
    /\ CallStart
    /\ SysIdle

NextCollect == CollectBuild \/ Optimize \/ Execute \/ CollectReturn

SpecCollect == InitCollect /\ [][NextCollect]_vars

\* Nodes the executor visits below (and including) node id.
Children(nd) == ({nd.a, nd.b} \cup Range(nd.keys) \cup Range(nd.ins)) \ {0}

RECURSIVE ReachFrom(_, _)
ReachFrom(gr, id) == {id} \cup UNION {ReachFrom(gr, c) : c \in Children(gr[id])}

NodeFails ==
    /\ root # 0
    /\ pc \in {"executed", "done"}
    /\ \E id \in ReachFrom(g, root) : Eval(g, id, plan, <<tbl, rtbl>>).kind = "err"

\* C9: when any node below the root fails, execute hands back a sentinel
\* below the smallest valid handle and no output value, and collect raises
\* RuntimeError instead of returning a Table.
C9_FailureIsSentinel ==
    NodeFails =>
        /\ result_ptr < MinHandle
        /\ result_ptr # ResultPtr
        /\ result = ErrVal
        /\ pc = "done" => (outcome = "RuntimeError" /\ returned = NoTable)

\* A filter over a missing column, applied to a head result, fails with a
\* non-zero error code.
C9_Witness ==
    /\ pc = "done" /\ ops = <<HeadOp(1), FilterOp(PredMissing)>>
    /\ NRows(tbl) = 2
    /\ result_ptr = MinHandle - 1
    /\ outcome = "RuntimeError"

\* Value of expression e on row i of table t.
RECURSIVE ExprAt(_, _, _)
ExprAt(t, e, i) ==
    CASE e.kind = "col" -> ColData(t, e.name)[i]
      [] e.kind = "lit" -> e.value
      [] OTHER -> ElemOp(e.op, ExprAt(t, e.left, i), ExprAt(t, e.right, i))

Satisfying(t, e) == SelectSeq(SeqOf(NRows(t)), LAMBDA i : ExprAt(t, e, i))

\* C10: table.filter(pred).collect() with no later step returns exactly the
\* rows that satisfy pred, in their original order.
C10_FilterCollectKeepsMatching ==
    (pc = "done" /\ Len(ops) = 1 /\ ops[1].op = "filter" /\ ops[1].expr \in {PredGt, PredEq}) =>
        /\ outcome = "Table"
        /\ returned = PermuteTable(tbl, Satisfying(tbl, ops[1].expr))

(***************************************************************************)
(* Reference-counted values: vectors, slice views and tables.              *)
(***************************************************************************)
VecObj(data) ==
    [kind |-> "vec", rc |-> 1, parent |-> 0, off |-> 0, len |-> Len(data),
     cols |-> <<>>, names |-> <<>>, data |-> data, freed |-> FALSE]
SliceObj(parent, off, len) ==
    [kind |-> "slice", rc |-> 1, parent |-> parent, off |-> off, len |-> len,
     cols |-> <<>>, names |-> <<>>, data |-> <<>>, freed |-> FALSE]
TableObj(names, cols) ==
    [kind |-> "table", rc |-> 1, parent |-> 0, off |-> 0, len |-> 0,
     cols |-> cols, names |-> names, data |-> <<>>, freed |-> FALSE]

\* td_retain
Retain(hp, id) == [hp EXCEPT ![id].rc = @ + 1]

\* What a value keeps alive: a table its columns, a slice its parent.
Owned(o) == IF o.kind = "table" THEN o.cols
            ELSE IF o.kind = "slice" THEN <<o.parent>> ELSE <<>>

\* td_release: decrement, and at zero free the value and release what it owns.
RECURSIVE Release(_, _)
RECURSIVE ReleaseEach(_, _, _)
Release(hp, id) ==
    IF hp[id].freed THEN hp
    ELSE IF hp[id].rc > 1 THEN [hp EXCEPT ![id].rc = @ - 1]
    ELSE ReleaseEach([hp EXCEPT ![id].rc = 0, ![id].freed = TRUE],
                     Owned(hp[id]), Len(Owned(hp[id])))
ReleaseEach(hp, ids, i) ==
    IF i = 0 THEN hp ELSE Release(ReleaseEach(hp, ids, i - 1), ids[i])

\* td_vec_slice: a view of len elements from off; the view holds a
\* reference on its parent.
VecSlice(hp, col, off, len) == Append(Retain(hp, col), SliceObj(col, off, len))

\* td_table_new / td_table_add_col: the table holds a reference on the column.
TableNew(hp) == Append(hp, TableObj(<<>>, <<>>))
TableAddCol(hp, t, name, v) ==
    [Retain(hp, v) EXCEPT ![t].names = Append(@, name), ![t].cols = Append(@, v)]

\* A vector can be read while it and, for a view, the buffer it reads
\* through are not freed.
RECURSIVE Readable(_, _)
Readable(hp, id) ==
    /\ ~hp[id].freed
    /\ hp[id].kind = "slice" => Readable(hp, hp[id].parent)

\* Elements of a readable vector; a view reads through its parent.
RECURSIVE VecData(_, _)
VecData(hp, id) ==
    IF hp[id].kind = "vec" THEN hp[id].data
    ELSE SubSeq(VecData(hp, hp[id].parent), hp[id].off + 1, hp[id].off + hp[id].len)

TableValue(hp, t) ==
    IF hp[t].freed \/ \E j \in DOMAIN hp[t].cols : ~Readable(hp, hp[t].cols[j]) THEN ErrVal
    ELSE MkTable(hp[t].names, [j \in DOMAIN hp[t].cols |-> VecData(hp, hp[t].cols[j])])

TableNRows(hp, t) ==
    IF hp[t].cols = <<>> THEN 0 ELSE Len(VecData(hp, hp[t].cols[1]))

\* The heap holding table t: one vector per column, then the table.
HeapOf(t) ==
    [j \in DOMAIN t.cols |-> [VecObj(t.cols[j]) EXCEPT !.rc = 1]]
    \o <<TableObj(t.names, [j \in DOMAIN t.cols |-> j])>>

\* Variant of SliceCols that releases the source column instead of the view.
RECURSIVE SliceColsReleaseParent(_, _, _, _, _, _)
SliceColsReleaseParent(hp, src, dst, off, len, i) ==
    IF i = 0 THEN hp
    ELSE LET h0 == SliceColsReleaseParent(hp, src, dst, off, len, i - 1)
             col_ptr == h0[src].cols[i]
             h1 == VecSlice(h0, col_ptr, off, len)
             sliced == Len(h1)
             h2 == TableAddCol(h1, dst, h0[src].names[i], sliced)
         IN Release(h2, col_ptr)

\* Variant of SliceCols whose view of column i is one element shorter than
\* its view of column i - 1.
RECURSIVE SliceColsUneven(_, _, _, _, _, _)
SliceColsUneven(hp, src, dst, off, len, i) ==
    IF i = 0 THEN hp
    ELSE LET h0 == SliceColsUneven(hp, src, dst, off, len, i - 1)
             col_ptr == h0[src].cols[i]
             h1 == VecSlice(h0, col_ptr, off, MaxOf(0, len - (i - 1)))
             sliced == Len(h1)
             h2 == TableAddCol(h1, dst, h0[src].names[i], sliced)
         IN Release(h2, sliced)

\* The column loop of Table.head and of the partition writer: slice column
\* i of src, add the view to dst, release the local reference to the view.
RECURSIVE SliceCols(_, _, _, _, _, _)
SliceCols(hp, src, dst, off, len, i) ==
    IF i = 0 THEN hp
    ELSE LET h0 == SliceCols(hp, src, dst, off, len, i - 1)
             col_ptr == h0[src].cols[i]
             h1 == VecSlice(h0, col_ptr, off, len)
             sliced == Len(h1)
             h2 == TableAddCol(h1, dst, h0[src].names[i], sliced)
         IN Release(h2, sliced)

qRest == <<rtbl, ops, g, root, plan, result_ptr, result, returned, outcome, gLive, gFrees,
          extVars>>

\* Table.head(n): self when n covers the table, else a new table of views.
TableHead ==
    /\ pc = "start"
    /\ call.fn = "head"
    /\ IF call.n >= TableNRows(heap, h.T)
       THEN /\ h' = [h EXCEPT !.head = h.T]
            /\ UNCHANGED <<heap, held>>
       ELSE LET h1 == TableNew(heap)
                new_tbl == Len(h1)
            IN /\ heap' = SliceCols(h1, h.T, new_tbl, 0, call.n, Len(heap[h.T].cols))
               /\ h' = [h EXCEPT !.head = new_tbl]
               /\ held' = held \cup {"head"}
    /\ pc' = "sliced"
    /\ UNCHANGED <<tbl, call, qRest, fs, ctx>>

\* lib.release(handle) by the owner of a handle, once the views exist.
ReleaseHandle ==
    /\ pc = "sliced"
    /\ call.fn = "head"
    /\ \E which \in held :
          /\ heap' = Release(heap, h[which])
          /\ held' = held \ {which}
    /\ UNCHANGED <<tbl, call, qRest, pc, h, fs, ctx>>

\* Partition writer, first half of an iteration: sub_tbl of views over rows
\* [start, start + part_rows) of every column.
PartitionSlice ==
    /\ pc = "start"
    /\ call.fn = "parted"
    /\ LET nrows == TableNRows(heap, h.T)
           rows_per_part == nrows \div call.n
           start == (h.part - 1) * rows_per_part
           end == IF h.part = call.n THEN nrows ELSE h.part * rows_per_part
           h1 == TableNew(heap)
           sub_tbl == Len(h1)
       IN /\ heap' = SliceCols(h1, h.T, sub_tbl, start, end - start, Len(heap[h.T].cols))
          /\ h' = [h EXCEPT !.head = sub_tbl]
          /\ held' = held \cup {"head"}
    /\ pc' = "sliced"
    /\ UNCHANGED <<tbl, call, qRest, fs, ctx>>

\* Second half: splay_save(sub_tbl), exit on error, else release(sub_tbl);
\* after the last partition the source table is released.
PartitionSaved ==
    /\ pc = "sliced"
    /\ call.fn = "parted"
    /\ \E err \in {0, 1} :
          IF err # 0
          THEN /\ pc' = "exit"
               /\ outcome' = "exit(1)"
               /\ UNCHANGED <<heap, h, held>>
          ELSE LET h1 == Release(heap, h.head)
               IN /\ outcome' = outcome
                  /\ IF h.part < call.n
                     THEN /\ heap' = h1
                          /\ h' = [h EXCEPT !.part = @ + 1]
                          /\ held' = held \ {"head"}
                          /\ pc' = "start"
                     ELSE /\ heap' = Release(h1, h.T)
                          /\ h' = h
                          /\ held' = {}
                          /\ pc' = "done"
    /\ UNCHANGED <<tbl, call, rtbl, ops, g, root, plan, result_ptr, result, returned,
                   gLive, gFrees, fs, ctx, extVars>>

MaxParts == 2

InitSlice ==
    /\ tbl \in LeftTables
    /\ rtbl = EmptyRight
    /\ \/ \E n \in 0..(MaxRows + 1) : call = [fn |-> "head", n |-> n]
       \/ \E n \in 1..MaxParts : call = [fn |-> "parted", n |-> n]
    /\ ops = <<>>
    /\ CallStart
    /\ heap = HeapOf(tbl)
    /\ h = [T |-> Len(tbl.cols) + 1, head |-> 0, part |-> 1]
    /\ held = {"T"}
    /\ fs = <<>>
    /\ ctx = NoCtx
    /\ ExtIdle

NextSlice == TableHead \/ ReleaseHandle \/ PartitionSlice \/ PartitionSaved

SpecSlice == InitSlice /\ [][NextSlice]_vars

LiveSlices(hp) == {i \in DOMAIN hp : hp[i].kind = "slice" /\ ~hp[i].freed}

\* References held on value v by live views and live tables.
Holders(hp, v) ==
    Cardinality({i \in LiveSlices(hp) : hp[i].parent = v})
    + Cardinality({<<i, j>> \in (DOMAIN hp) \X (1..3) :
                      /\ hp[i].kind = "table" /\ ~hp[i].freed
                      /\ j \in DOMAIN hp[i].cols /\ hp[i].cols[j] = v})

\* C6: no live slice refers to a freed parent, a value is freed only at
\* refcount zero, a live value's refcount covers every live view and table
\* that refers to it, and a head result that is still held reads the first
\* n rows of the source whether or not the source was released.
C6_SlicesKeepParentAlive ==
    /\ \A i \in LiveSlices(heap) : ~heap[heap[i].parent].freed
    /\ \A v \in DOMAIN heap : heap[v].freed <=> heap[v].rc = 0
    /\ \A v \in DOMAIN heap : ~heap[v].freed => heap[v].rc >= Holders(heap, v)
    /\ (call.fn = "head" /\ pc = "sliced" /\ h.head # h.T /\ "head" \in held) =>
          TableValue(heap, h.head) = EvalHead(tbl, call.n)

\* The source table was released while the head result is still held.
C6_Witness ==
    /\ call.fn = "head" /\ pc = "sliced" /\ h.head # h.T
    /\ call.n = 1 /\ NRows(tbl) = 2
    /\ held = {"head"}
    /\ heap[h.T].freed
    /\ LiveSlices(heap) # {}

(***************************************************************************)
(* Splay storage: one file per column in a directory, plus an index file   *)
(* that lists the column names in table order.                             *)
(***************************************************************************)
TD_BOOL == 1
TD_I64 == 6
TD_F64 == 7
TD_ENUM == 15

FileNames == {"a", "b", "c"}

NoFile == [present |-> FALSE, tag |-> 0, len |-> 0, raw |-> <<>>]
NoDir == [exists |-> FALSE, files |-> [n \in FileNames |-> NoFile], hasIndex |-> FALSE,
          index |-> <<>>]

\* A column file has the in-memory layout: type tag, length, raw elements.
FileOf(type, data) == [present |-> TRUE, tag |-> type, len |-> Len(data), raw |-> data]

TypedTable(names, types, cols) ==
    [kind |-> "table", names |-> names, cols |-> cols, data |-> <<>>, types |-> types]

\* The directory after the first k columns of t were written.
WriteCols(dir, t, k) ==
    [dir EXCEPT !.exists = TRUE,
                !.files = [n \in FileNames |->
                              IF \E j \in 1..k : t.names[j] = n
                              THEN LET j == CHOOSE j \in 1..k : t.names[j] = n
                                   IN FileOf(t.types[j], t.cols[j])
                              ELSE dir.files[n]]]

\* td_splay_save that succeeds: every column file, then the index.
SplayWritten(dir, t) ==
    [WriteCols(dir, t, Len(t.names)) EXCEPT !.hasIndex = TRUE, !.index = t.names]

\* td_splay_load: the columns the index lists, in index order, after the
\* header of every file is validated; ErrVal stands for the null handle.
SplayRead(dir) ==
    IF ~dir.exists \/ ~dir.hasIndex THEN ErrVal
    ELSE IF \E j \in DOMAIN dir.index :
               \/ ~dir.files[dir.index[j]].present
               \/ dir.files[dir.index[j]].len # Len(dir.files[dir.index[j]].raw)
               \/ dir.files[dir.index[j]].len # dir.files[dir.index[1]].len
    THEN ErrVal
    ELSE TypedTable(dir.index,
                    [j \in DOMAIN dir.index |-> dir.files[dir.index[j]].tag],
                    [j \in DOMAIN dir.index |-> dir.files[dir.index[j]].raw])

\* Variant of SaveRaises that ignores the error code.
SaveRaisesNever(err) == FALSE

\* Context.splay_save: `if err != 0: raise RuntimeError`.
SaveRaises(err) == err # 0

kRest == <<g, root, plan, result_ptr, result, gLive, gFrees, rtbl, ops, heap, h, held, ctx,
          extVars>>

\* example_splay removes a directory left by an earlier run before saving.
ExampleClean ==
    /\ pc = "start"
    /\ call.fn = "example_splay"
    /\ fs' = NoDir
    /\ pc' = "clean"
    /\ UNCHANGED <<tbl, call, returned, outcome, kRest>>

\* Context.splay_save: the engine writes the directory or stops part-way
\* with an error code, which is raised.
SplaySave ==
    /\ \/ pc = "clean" /\ call.fn = "example_splay"
       \/ pc = "start" /\ call.fn = "splay_save"
    /\ \E err \in {0, 1}, k \in 0..(Len(tbl.names) - 1) :
          /\ fs' = IF err = 0 THEN SplayWritten(fs, tbl) ELSE WriteCols(fs, tbl, k)
          /\ IF SaveRaises(err)
             THEN outcome' = "RuntimeError" /\ pc' = "done"
             ELSE outcome' = outcome /\ pc' = "saved"
    /\ UNCHANGED <<tbl, call, returned, kRest>>

\* Context.splay_load: a null or error handle is raised, else a Table.
SplayLoad ==
    /\ pc = "saved"
    /\ LET v == SplayRead(fs)
       IN IF v.kind = "err"
          THEN outcome' = "RuntimeError" /\ returned' = NoTable
          ELSE outcome' = "Table" /\ returned' = v
    /\ pc' = "loaded"
    /\ UNCHANGED <<tbl, call, fs, kRest>>

\* example_splay removes the directory after printing the loaded table.
ExampleRemove ==
    /\ pc = "loaded"
    /\ call.fn = "example_splay"
    /\ fs' = NoDir
    /\ pc' = "done"
    /\ UNCHANGED <<tbl, call, returned, outcome, kRest>>

SplayTypes == {TD_BOOL, TD_I64, TD_F64, TD_ENUM}
Cells(type) == IF type = TD_I64 THEN {NullI64, 1} ELSE {0, 1}
SplayNames == {<<"a">>, <<"a", "b">>, <<"b", "a">>}

SplayTables ==
    UNION {UNION {{TypedTable(names, types, cols) :
                      cols \in {c \in [DOMAIN names -> UNION {[1..n -> Cells(t)] : t \in SplayTypes}] :
                                   \A j \in DOMAIN names : \A i \in 1..n : c[j][i] \in Cells(types[j])}} :
                  types \in [DOMAIN names -> SplayTypes]} :
           names \in SplayNames, n \in 0..MaxRows}

\* A directory an earlier save of another table left behind.
StaleDir == SplayWritten(NoDir, TypedTable(<<"a", "c">>, <<TD_I64, TD_I64>>, <<<<1>>, <<1>>>>))

InitSplay ==
    /\ tbl \in SplayTables
    /\ rtbl = EmptyRight
    /\ call \in {[fn |-> "example_splay"], [fn |-> "splay_save"]}
    /\ ops = <<>>
    /\ CallStart
    /\ heap = <<>>
    /\ h = NoHandles
    /\ held = {}
    /\ fs \in {NoDir, StaleDir}
    /\ ctx = NoCtx
    /\ ExtIdle

NextSplay == ExampleClean \/ SplaySave \/ SplayLoad \/ ExampleRemove

SpecSplay == InitSplay /\ [][NextSplay]_vars

MaxTasks == 3

cRest == <<tbl, rtbl, call, ops, g, root, plan, result_ptr, result, returned, outcome,
           gLive, gFrees, heap, h, held, fs, extVars>>

\* Paths whose teardown starts with pool_destroy, and the one that does not.
PoolDestroyPaths == {"Context.close", "lifespan"}
TeardownPaths == PoolDestroyPaths \cup {"create_parted"}

\* sym_init and arena_init at startup.
ContextInit ==
    /\ pc = "start"
    /\ call.fn \in TeardownPaths
    /\ ctx' = [ctx EXCEPT !.sym = "live", !.arena = "live"]
    /\ pc' = "up"
    /\ UNCHANGED cRest

\* The engine starts its worker threads on the first parallel operation.
PoolStart ==
    /\ pc = "up"
    /\ ctx.pool = "none"
    /\ ctx' = [ctx EXCEPT !.pool = "running"]
    /\ UNCHANGED <<pc, cRest>>

\* A parallel scan or load hands a task to an idle worker; the task reads
\* arena memory until it has filled its own output slot.
Dispatch ==
    /\ pc = "up"
    /\ ctx.pool = "running"
    /\ \E w \in (1..MaxTasks) \ ctx.busy : ctx' = [ctx EXCEPT !.busy = @ \cup {w}]
    /\ UNCHANGED <<pc, cRest>>

WorkerDone ==
    /\ ctx.pool = "running"
    /\ \E w \in ctx.busy :
          ctx' = [ctx EXCEPT !.busy = @ \ {w}, !.filled = @ \cup {w}]
    /\ UNCHANGED <<pc, cRest>>

\* pool_destroy: drains in-flight tasks and joins the workers.
PoolDestroy ==
    /\ pc = "up"
    /\ call.fn \in PoolDestroyPaths
    /\ ctx' = [ctx EXCEPT !.pool = IF @ = "running" THEN "destroyed" ELSE @,
                          !.filled = @ \cup ctx.busy,
                          !.busy = {},
                          !.order = Append(@, "pool")]
    /\ pc' = "pool_done"
    /\ UNCHANGED cRest

\* sym_destroy: second call of close() and lifespan; the partition writer
\* calls it right after its synchronous work and release(tbl).
SymDestroy ==
    /\ \/ pc = "pool_done"
       \/ pc = "up" /\ call.fn \notin PoolDestroyPaths /\ ctx.busy = {}
    /\ ctx' = [ctx EXCEPT !.sym = "destroyed", !.order = Append(@, "sym")]
    /\ pc' = "sym_done"
    /\ UNCHANGED cRest

\* arena_destroy_all: unmaps the arena memory.
ArenaDestroyAll ==
    /\ pc = "sym_done"
    /\ ctx' = [ctx EXCEPT !.arena = "destroyed", !.order = Append(@, "arena")]
    /\ pc' = "done"
    /\ UNCHANGED cRest

InitTeardown ==
    /\ tbl = NoTable
    /\ rtbl = EmptyRight
    /\ \E path \in TeardownPaths : call = [fn |-> path]
    /\ ops = <<>>
    /\ CallStart
    /\ SysIdle

NextTeardown ==
    ContextInit \/ PoolStart \/ Dispatch \/ WorkerDone \/ PoolDestroy \/ SymDestroy
    \/ ArenaDestroyAll

SpecTeardown == InitTeardown /\ [][NextTeardown]_vars

\* C8: the arena is never destroyed while pool workers may still run; the
\* pool is destroyed first, then the symbol table, then the arena.
C8_PoolBeforeArena ==
    ctx.arena = "destroyed" =>
        /\ ctx.pool # "running"
        /\ ctx.busy = {}
        /\ \/ ctx.order = <<"pool", "sym", "arena">>
           \/ ctx.pool = "none" /\ ctx.order = <<"sym", "arena">>

\* The same order on the paths that begin their teardown with pool_destroy.
CloseDestroysPoolFirst ==
    (ctx.arena = "destroyed" /\ call.fn \in PoolDestroyPaths) =>
        /\ ctx.pool # "running"
        /\ ctx.busy = {}
        /\ ctx.order = <<"pool", "sym", "arena">>

(***************************************************************************)
(* Every way a Table comes to exist: loaded inputs, head and partition     *)
(* views, sort, group and join results, splay load.                        *)
(***************************************************************************)
InitTables ==
    InitGroup \/ InitSort \/ InitJoin \/ InitCollect \/ InitSlice \/ InitSplay

NextTables ==
    \/ CollectBuild \/ RunSortBuild \/ JoinBuild
    \/ Optimize \/ Execute
    \/ CollectReturn \/ RunSortReturn \/ JoinReturn
    \/ TableHead \/ ReleaseHandle \/ PartitionSlice \/ PartitionSaved
    \/ ExampleClean \/ SplaySave \/ SplayLoad \/ ExampleRemove

SpecTables == InitTables /\ [][NextTables]_vars

\* td_table_nrows and the column lengths of a materialized table value.
ColsSameLength(t) ==
    t.kind = "table" => \A j \in DOMAIN t.cols : Len(t.cols[j]) = NRows(t)

\* The same for a live table of the heap, read through its column handles.
HeapColsSameLength(hp, t) ==
    \A j \in DOMAIN hp[t].cols :
        /\ Readable(hp, hp[t].cols[j])
        /\ Len(VecData(hp, hp[t].cols[j])) = TableNRows(hp, t)
        /\ hp[hp[t].cols[j]].len = TableNRows(hp, t)

LiveTables(hp) == {i \in DOMAIN hp : hp[i].kind = "table" /\ ~hp[i].freed}

MaxCalls == 2

\* Strings as code points: "a", e-acute, e-grave.
Strs == {<<97>>, <<233>>, <<232>>}

\* str.encode('utf-8') for code points below 2048.
EncodeChar(cp) == IF cp < 128 THEN <<cp>> ELSE <<192 + (cp \div 64), 128 + (cp % 64)>>
RECURSIVE Encode(_)
Encode(s) == IF s = <<>> THEN <<>> ELSE EncodeChar(Head(s)) \o Encode(Tail(s))

\* Variant of sym_intern that passes the number of characters as the length.
sym_intern_charlen(s) == [b |-> Encode(s), len |-> Len(s)]

\* TeideLib.sym_intern: the encoded bytes and their count go to td_sym_intern.
sym_intern(s) == [b |-> Encode(s), len |-> Len(Encode(s))]

\* The key td_sym_intern reads: the first len bytes of the buffer.
KeyOf(a) == SubSeq(a.b, 1, a.len)

\* Published slot holding key, or 0.
SymFind(t, key) ==
    IF \E i \in 1..t.count : t.tab[i].bytes = key
    THEN CHOOSE i \in 1..t.count : t.tab[i].bytes = key
    ELSE 0

\* A call returns id to the caller that asked for string s.
SymReturn(t, x, id) ==
    [t EXCEPT !.w[x] = [IdleCall EXCEPT !.calls = t.w[x].calls + 1],
              !.seen = @ \cup {<<t.w[x].s, id>>}]

symRest == <<queryVars, sysVars, run, cache, store, pinned, moreVars>>

\* sym_intern(s) is called: lock-free lookup, hit returns the id.
SymInternCall ==
    /\ call.fn = "sym"
    /\ \E x \in SymWorkers, s \in Strs :
          /\ sym.w[x].pc = "idle"
          /\ sym.w[x].calls < MaxCalls
          /\ LET key == KeyOf(sym_intern(s))
                 t == [sym EXCEPT !.w[x].s = s, !.w[x].key = key]
                 slot == SymFind(sym, key)
             IN sym' = IF slot # 0 THEN SymReturn(t, x, slot - 1)
                       ELSE [t EXCEPT !.w[x].pc = "wait"]
    /\ UNCHANGED symRest

\* A caller that missed takes the write lock when it is free.
SymLock ==
    /\ \E x \in SymWorkers :
          /\ sym.w[x].pc = "wait"
          /\ sym.lock = 0
          /\ sym' = [sym EXCEPT !.lock = x, !.w[x].pc = "locked"]
    /\ UNCHANGED symRest

\* Under the lock: look again; on a hit unlock and return the id, else
\* claim the next slot, not yet filled and not yet published.
SymRecheck ==
    /\ \E x \in SymWorkers :
          /\ sym.w[x].pc = "locked"
          /\ LET slot == SymFind(sym, sym.w[x].key)
             IN sym' = IF slot # 0
                       THEN SymReturn([sym EXCEPT !.lock = 0], x, slot - 1)
                       ELSE [sym EXCEPT !.tab = Append(@, [bytes |-> <<>>, full |-> FALSE]),
                                        !.w[x].pc = "fill"]
    /\ UNCHANGED symRest

\* The claimed slot receives the key.
SymFill ==
    /\ \E x \in SymWorkers :
          /\ sym.w[x].pc = "fill"
          /\ sym' = [sym EXCEPT !.tab[Len(sym.tab)] = [bytes |-> sym.w[x].key, full |-> TRUE],
                                !.w[x].pc = "publish"]
    /\ UNCHANGED symRest

\* The filled slot is published, the lock released, the new id returned.
SymPublish ==
    /\ \E x \in SymWorkers :
          /\ sym.w[x].pc = "publish"
          /\ sym' = SymReturn([sym EXCEPT !.count = @ + 1, !.lock = 0], x, sym.count)
    /\ UNCHANGED symRest

\* sym_str(id): a lock-free read of a published slot; an id that is not
\* published gives NULL and nothing is observed.
SymStr ==
    /\ call.fn = "sym"
    /\ \E x \in SymWorkers, id \in 0..MaxCalls :
          /\ sym.w[x].pc = "idle"
          /\ sym.w[x].calls < MaxCalls
          /\ sym' = [sym EXCEPT !.w[x].calls = @ + 1,
                                !.obs = IF id < sym.count
                                        THEN @ \cup {<<id, sym.tab[id + 1]>>} ELSE @]
    /\ UNCHANGED symRest

InitSym ==
    /\ tbl = NoTable
    /\ rtbl = EmptyRight
    /\ call = [fn |-> "sym"]
    /\ ops = <<>>
    /\ CallStart
    /\ heap = <<>> /\ h = NoHandles /\ held = {} /\ fs = <<>> /\ ctx = NoCtx
    /\ sym = NoSym /\ run = NoRun /\ cache = <<>> /\ store = NoStore /\ pinned = 0
    /\ MoreIdle

NextSym == SymInternCall \/ SymLock \/ SymRecheck \/ SymFill \/ SymPublish \/ SymStr

SpecSym == InitSym /\ [][NextSym]_vars

\* C12: every id handed out so far belongs to one string and every string
\* to one id; the published entries are pairwise different, so two callers
\* racing on the same new string create one entry; at most the lock holder's
\* slot is unpublished; every entry a lookup has read was completely filled
\* and is still the entry of that id.
C12_InterningStable ==
    /\ \A p, q \in sym.seen : (p[1] = q[1]) <=> (p[2] = q[2])
    /\ \A p \in sym.seen : p[2] < sym.count /\ sym.tab[p[2] + 1].bytes = Encode(p[1])
    /\ \A i, j \in 1..sym.count : sym.tab[i].bytes = sym.tab[j].bytes => i = j
    /\ Len(sym.tab) <= sym.count + 1
    /\ \A o \in sym.obs : o[2].full /\ o[2] = sym.tab[o[1] + 1]

\* Two callers missed the same new string: one is inserting it under the
\* lock while the other waits for the lock, and a lookup has read an entry.
C12_Witness ==
    /\ sym.w[1].pc = "wait" /\ sym.w[2].pc = "publish"
    /\ sym.w[1].s = sym.w[2].s
    /\ Len(sym.w[1].key) = 2
    /\ sym.obs # {}

(***************************************************************************)
(* Introspection of a loaded table through the Table wrapper.              *)
(***************************************************************************)
\* bytes.decode('utf-8') of what Encode produces.
RECURSIVE Decode(_)
Decode(b) ==
    IF b = <<>> THEN <<>>
    ELSE IF Head(b) < 128 THEN <<Head(b)>> \o Decode(Tail(b))
    ELSE <<(Head(b) - 192) * 64 + (Head(Tail(b)) - 128)>> \o Decode(Tail(Tail(b)))

\* td_sym_intern by a single caller: the id of key, inserted when new.
SymInternSeq(t, key) ==
    IF SymFind(t, key) # 0 THEN [sym |-> t, id |-> SymFind(t, key) - 1]
    ELSE [sym |-> [t EXCEPT !.tab = Append(@, [bytes |-> key, full |-> TRUE]),
                            !.count = @ + 1],
          id |-> t.count]

\* td_table_get_col: position of the column whose name has id name_id, or 0.
TableGetCol(t, st, name_id) ==
    IF \E i \in DOMAIN t.names : Encode(t.names[i]) = st.tab[name_id + 1].bytes
    THEN CHOOSE i \in DOMAIN t.names : Encode(t.names[i]) = st.tab[name_id + 1].bytes
    ELSE 0

\* The symbol table after a table with these column names was loaded.
RECURSIVE SymOfNames(_)
SymOfNames(names) ==
    IF names = <<>> THEN NoSym
    ELSE SymInternSeq(SymOfNames(SubSeq(names, 1, Len(names) - 1)),
                      Encode(names[Len(names)])).sym

iRest == <<tbl, rtbl, call, ops, g, root, plan, returned, pc, gLive, gFrees, sysVars, run,
          cache, store, pinned, moreVars>>

\* Table.shape / len(Table): row count and column count.
TableShape ==
    /\ call.fn = "intro"
    /\ outcome' = "shape"
    /\ result' = MkVec(<<NRows(tbl), Len(tbl.cols)>>)
    /\ result_ptr' = 0
    /\ UNCHANGED <<iRest, sym>>

\* Table.columns: the name id of every column, resolved and decoded.
TableColumns ==
    /\ call.fn = "intro"
    /\ outcome' = "columns"
    /\ result' = MkVec([i \in DOMAIN tbl.names |->
                           Decode(sym.tab[SymFind(sym, Encode(tbl.names[i]))].bytes)])
    /\ result_ptr' = 0
    /\ UNCHANGED <<iRest, sym>>

\* table_get_col_idx(tbl, idx): the column at a position, NULL out of range.
TableGetColIdx ==
    /\ call.fn = "intro"
    /\ \E idx \in 0..Len(tbl.cols) :
          /\ outcome' = "col_idx"
          /\ result' = IF idx < Len(tbl.cols) THEN MkVec(tbl.cols[idx + 1]) ELSE ErrVal
          /\ result_ptr' = idx
    /\ UNCHANGED <<iRest, sym>>

\* Table.__getitem__(name): intern the name, look the column up by id,
\* KeyError when there is none.
TableGetItem ==
    /\ call.fn = "intro"
    /\ \E name \in Strs :
          LET a == sym_intern(name)
              r == SymInternSeq(sym, KeyOf(a))
              vec_ptr == TableGetCol(tbl, r.sym, r.id)
          IN /\ sym' = r.sym
             /\ result_ptr' = r.id
             /\ IF vec_ptr = 0
                THEN outcome' = "KeyError" /\ result' = ErrVal
                ELSE outcome' = "Series" /\ result' = MkVec(tbl.cols[vec_ptr])
    /\ UNCHANGED iRest

IntroNames == {<<x>> : x \in Strs} \cup {<<x, y>> : x, y \in {z \in Strs : Len(Encode(z)) = 2}}

IntroTables ==
    {MkTable(names, cols) :
        names \in {n \in IntroNames : \A i, j \in DOMAIN n : n[i] = n[j] => i = j},
        cols \in UNION {[1..k -> [1..n -> KeyVals]] : k \in 1..2, n \in 0..MaxRows}}

InitIntro ==
    /\ tbl \in {t \in IntroTables : Len(t.names) = Len(t.cols)}
    /\ rtbl = EmptyRight
    /\ call = [fn |-> "intro"]
    /\ ops = <<>>
    /\ CallStart
    /\ heap = <<>> /\ h = NoHandles /\ held = {} /\ fs = <<>> /\ ctx = NoCtx
    /\ sym = SymOfNames(tbl.names) /\ run = NoRun /\ cache = <<>> /\ store = NoStore
    /\ pinned = 0
    /\ MoreIdle

NextIntro == TableShape \/ TableColumns \/ TableGetColIdx \/ TableGetItem

SpecIntro == InitIntro /\ [][NextIntro]_vars

\* C13: no introspection call changes the table or the set of interned
\* strings, whether or not the requested column exists.
C13_IntrospectionReadOnly ==
    [][tbl' = tbl /\ sysVars' = sysVars /\ sym'.tab = sym.tab /\ sym'.count = sym.count]_vars

\* Introspection never changes the table or an id handed out before, and a
\* lookup by the name of an existing column interns nothing.
IntrospectionKeepsTable ==
    [][/\ tbl' = tbl /\ sysVars' = sysVars
       /\ SubSeq(sym'.tab, 1, sym.count) = sym.tab
       /\ outcome' # "KeyError" => sym' = sym]_vars

(***************************************************************************)
(* Sorting twice: the caller sorts the table a sort returned, by the same  *)
(* keys and directions.                                                    *)
(***************************************************************************)
\* The table returned by the first sort is bound as the input of a second
\* call with the same arguments; rtbl keeps the first result.
SortAgain ==
    /\ pc = "done"
    /\ outcome = "Table"
    /\ rtbl = EmptyRight
    /\ tbl' = returned
    /\ rtbl' = returned
    /\ g' = <<>> /\ root' = 0 /\ plan' = "none" /\ result_ptr' = 0
    /\ result' = NoTable /\ returned' = NoTable /\ outcome' = "none"
    /\ pc' = "start" /\ gLive' = FALSE /\ gFrees' = 0
    /\ UNCHANGED <<sysVars, extVars, call, ops>>

NextResort ==
    CollectBuild \/ RunSortBuild \/ Optimize \/ Execute \/ RunSortReturn \/ SortAgain

SpecResort == InitSort /\ [][NextResort]_vars

SortedTwice == SortRequested /\ rtbl # EmptyRight

\* C14: a sort by key list k returns a table, and sorting that table again
\* by k returns a table equal to it row for row.
C14_SortIdempotent ==
    SortRequested => /\ outcome = "Table"
                     /\ SortedTwice => returned = rtbl

\* The same law for the calls that reach the engine through TeideLib.sort_op.
RunSortIdempotent ==
    (SortedTwice /\ call.fn = "run_sort") => (outcome = "Table" /\ returned = rtbl)

\* A second sort finished on a first result that differs from its input.
RunSortTwiceReached ==
    SortedTwice /\ call.fn = "run_sort" /\ NRows(rtbl) = MaxRows /\ outcome = "Table"

(***************************************************************************)
(* PipelineExecutor.run: Kahn's topological sort of the pipeline, resume   *)
(* from the session cache, eager execution with callbacks, cache write.    *)
(***************************************************************************)
MAX_SESSIONS == 20

NodeIds == {"a", "b", "c"}

\* downstream[n]: the targets of the edges leaving n, in edge order.
Downstream(edges, n) ==
    LET out == SelectSeq(edges, LAMBDA e : e[1] = n)
    IN [i \in DOMAIN out |-> out[i][2]]

\* upstream[n]: the sources of the edges entering n, in edge order.
Upstream(edges, n) ==
    LET inc == SelectSeq(edges, LAMBDA e : e[2] = n)
    IN [i \in DOMAIN inc |-> inc[i][1]]

\* in_degree after counting every edge.
InDegree(nodes, edges) ==
    [n \in Range(nodes) |-> Cardinality({i \in DOMAIN edges : edges[i][2] = n})]

\* The inner loop of the sort: each target loses one incoming edge and
\* joins the queue when none is left.
RECURSIVE Relax(_, _)
Relax(targets, st) ==
    IF targets = <<>> THEN st
    ELSE LET t == Head(targets)
             d == st.deg[t] - 1
         IN Relax(Tail(targets),
                  [deg |-> [st.deg EXCEPT ![t] = d],
                   queue |-> IF d = 0 THEN Append(st.queue, t) ELSE st.queue])

RECURSIVE Kahn(_, _, _)
Kahn(edges, st, order) ==
    IF st.queue = <<>> THEN order
    ELSE LET n_id == Head(st.queue)
         IN Kahn(edges, Relax(Downstream(edges, n_id), [st EXCEPT !.queue = Tail(@)]),
                 Append(order, n_id))

\* Variant of TopoOrder that walks the sorted nodes from the back.
TopoOrderReversed(nodes, edges) ==
    LET deg == InDegree(nodes, edges)
        o == Kahn(edges, [deg |-> deg, queue |-> SelectSeq(nodes, LAMBDA n : deg[n] = 0)], <<>>)
    IN [i \in DOMAIN o |-> o[Len(o) + 1 - i]]

\* The order list: the queue starts with the nodes that have no incoming edge.
TopoOrder(nodes, edges) ==
    LET deg == InDegree(nodes, edges)
    IN Kahn(edges, [deg |-> deg, queue |-> SelectSeq(nodes, LAMBDA n : deg[n] = 0)], <<>>)

\* order.index(x), from 0.
IndexOf(order, x) == (CHOOSE i \in DOMAIN order : order[i] = x /\ \A j \in 1..(i - 1) : order[j] # x) - 1

CacheHas(c, sid) == \E i \in DOMAIN c : c[i].sid = sid
CacheGet(c, sid) == c[CHOOSE i \in DOMAIN c : c[i].sid = sid].results

\* _session_cache[session_id] = results, then the oldest entry is dropped
\* when the cache holds more than the maximum.
CacheWrite(c, sid, results) ==
    LET c1 == IF CacheHas(c, sid)
              THEN [i \in DOMAIN c |-> IF c[i].sid = sid THEN [c[i] EXCEPT !.results = results]
                                       ELSE c[i]]
              ELSE Append(c, [sid |-> sid, results |-> results])
    IN IF Len(c1) > MAX_SESSIONS THEN Tail(c1) ELSE c1

\* Results restored for the nodes ordered before start_from.
Restored(order, start_idx, cached) ==
    [n \in {order[i] : i \in 1..start_idx} \cap DOMAIN cached |-> cached[n]]

rRest == <<queryVars, sysVars, sym, store, pinned, moreVars>>

\* run(pipeline, callbacks, session_id, start_from) up to the execution
\* loop: index the nodes, count in-degrees (KeyError on an edge whose
\* target is no node), sort, reject a cycle, pick the start index.
RunCall ==
    /\ call.fn = "run"
    /\ run.pc \in {"idle", "returned", "raised"}
    /\ \E session_id \in {"", "s1"}, start_from \in {""} \cup NodeIds :
          LET r0 == [run EXCEPT !.session_id = session_id, !.start_from = start_from,
                                !.order = <<>>, !.start_idx = 0, !.idx = 0,
                                !.results = EmptyMap, !.events = <<>>, !.exc = "none"]
              order == TopoOrder(run.nodes, run.edges)
              resume == /\ start_from # "" /\ session_id # "" /\ CacheHas(cache, session_id)
                        /\ start_from \in Range(order)
              start_idx == IF resume THEN IndexOf(order, start_from) ELSE 0
          IN run' = IF \E i \in DOMAIN run.edges : run.edges[i][2] \notin Range(run.nodes)
                    THEN [r0 EXCEPT !.pc = "raised", !.exc = "KeyError"]
                    ELSE IF Len(order) # Len(run.nodes)
                    THEN [r0 EXCEPT !.pc = "raised", !.exc = "ValueError"]
                    ELSE [r0 EXCEPT !.pc = "loop", !.order = order, !.start_idx = start_idx,
                                    !.idx = start_idx + 1,
                                    !.results = IF resume
                                                THEN Restored(order, start_idx,
                                                              CacheGet(cache, session_id))
                                                ELSE EmptyMap]
    /\ UNCHANGED <<rRest, cache>>

\* Top of a loop iteration: look the node type up (KeyError leaves run),
\* merge the upstream outputs, call on_node_start.
NodeStart ==
    /\ run.pc = "loop"
    /\ run.idx <= Len(run.order)
    /\ \E known \in BOOLEAN :
          run' = IF known
                 THEN [run EXCEPT !.pc = "exec",
                                  !.events = Append(@, <<"start", run.order[run.idx]>>)]
                 ELSE [run EXCEPT !.pc = "raised", !.exc = "KeyError"]
    /\ UNCHANGED <<rRest, cache>>

\* Variant of NodeExecute that goes on with the next node after an error.
NodeExecuteNoBreak ==
    /\ run.pc = "exec"
    /\ LET n_id == run.order[run.idx]
       IN \E ok \in BOOLEAN :
             run' = IF ok
                    THEN [run EXCEPT !.results = (n_id :> "out") @@ @,
                                     !.events = Append(@, <<"done", n_id>>),
                                     !.idx = @ + 1, !.pc = "loop"]
                    ELSE [run EXCEPT !.results = (n_id :> "error") @@ @,
                                     !.events = Append(@, <<"error", n_id>>),
                                     !.idx = @ + 1, !.pc = "loop"]
    /\ UNCHANGED <<rRest, cache>>

\* node.execute: the output is stored and on_node_done called, or the
\* error is stored, on_node_error called and the loop left.
NodeExecute ==
    /\ run.pc = "exec"
    /\ LET n_id == run.order[run.idx]
       IN \E ok \in BOOLEAN :
             run' = IF ok
                    THEN [run EXCEPT !.results = (n_id :> "out") @@ @,
                                     !.events = Append(@, <<"done", n_id>>),
                                     !.idx = @ + 1, !.pc = "loop"]
                    ELSE [run EXCEPT !.results = (n_id :> "error") @@ @,
                                     !.events = Append(@, <<"error", n_id>>),
                                     !.pc = "break"]
    /\ UNCHANGED <<rRest, cache>>

\* After the loop: the results are cached under the session id, if any,
\* and returned.
RunFinish ==
    /\ \/ run.pc = "loop" /\ run.idx > Len(run.order)
       \/ run.pc = "break"
    /\ cache' = IF run.session_id # "" THEN CacheWrite(cache, run.session_id, run.results)
                ELSE cache
    /\ run' = [run EXCEPT !.pc = "returned"]
    /\ UNCHANGED rRest

NodeLists == {<<>>, <<"a">>, <<"a", "b">>, <<"a", "b", "c">>}
EdgePairs == NodeIds \X NodeIds
EdgeLists == {<<>>} \cup {<<e>> : e \in EdgePairs} \cup {<<e, f>> : e, f \in EdgePairs}

InitRun ==
    /\ tbl = NoTable
    /\ rtbl = EmptyRight
    /\ call = [fn |-> "run"]
    /\ ops = <<>>
    /\ CallStart
    /\ heap = <<>> /\ h = NoHandles /\ held = {} /\ fs = <<>> /\ ctx = NoCtx
    /\ sym = NoSym
    /\ \E nodes \in NodeLists, edges \in EdgeLists :
          run = [NoRun EXCEPT !.nodes = nodes, !.edges = edges]
    /\ cache = <<>>
    /\ store = NoStore
    /\ pinned = 0
    /\ MoreIdle

NextRun == RunCall \/ NodeStart \/ NodeExecute \/ RunFinish

SpecRun == InitRun /\ [][NextRun]_vars

\* Positions of the callback log, and the events of one kind at a node.
EventAt(kind, n) == {i \in DOMAIN run.events : run.events[i] = <<kind, n>>}
Started == SelectSeq(run.events, LAMBDA e : e[1] = "start")
Finished == SelectSeq(run.events, LAMBDA e : e[1] = "done")
NodesOf(evs) == [i \in DOMAIN evs |-> evs[i][2]]

OrderPos(n) == IF n \in Range(run.order) THEN IndexOf(run.order, n) + 1 ELSE 0

\* C16: once a node's execute raised in this run, the results map it to
\* the error, on_node_error fired once and on_node_done never for it, the
\* error callback is the last callback, and no node later in the order was
\* started, got a callback or is in the results.
C16_StopsAtFirstError ==
    \A n \in NodeIds :
        EventAt("error", n) # {} =>
            /\ run.pc \in {"break", "returned"}
            /\ n \in DOMAIN run.results /\ run.results[n] = "error"
            /\ Cardinality(EventAt("error", n)) = 1
            /\ EventAt("done", n) = {}
            /\ EventAt("error", n) = {Len(run.events)}
            /\ \A m \in Range(run.order) :
                  OrderPos(m) > OrderPos(n) =>
                     /\ m \notin DOMAIN run.results
                     /\ \A i \in DOMAIN run.events : run.events[i][2] # m

\* The second of three ordered nodes failed and the run returned.
C16_Witness ==
    /\ run.pc = "returned"
    /\ run.order = <<"b", "c", "a">>
    /\ run.events = <<<<"start", "b">>, <<"done", "b">>, <<"start", "c">>, <<"error", "c">>>>
    /\ DOMAIN run.results = {"b", "c"}

\* Some node reaches itself along one or more edges.
RECURSIVE ReachBy(_, _, _)
ReachBy(edges, from, k) ==
    IF k = 0 THEN from
    ELSE LET r == ReachBy(edges, from, k - 1)
         IN r \cup {edges[i][2] : i \in {j \in DOMAIN edges : edges[j][1] \in r}}
HasCycle(edges) ==
    \E i \in DOMAIN edges : edges[i][1] \in ReachBy(edges, {edges[i][2]}, Len(edges))

\* Every edge joins two nodes of the pipeline.
WellFormed == \A i \in DOMAIN run.edges : run.edges[i][1] \in Range(run.nodes)
                                          /\ run.edges[i][2] \in Range(run.nodes)

Called == run.pc # "idle"

\* C17: a pipeline whose edges contain a cycle is rejected with ValueError
\* before any node runs, any callback fires or the cache is written, and a
\* pipeline without a cycle is never rejected with that error.
C17_CycleRejected ==
    /\ (Called /\ HasCycle(run.edges)) =>
          /\ run.pc = "raised" /\ run.exc = "ValueError"
          /\ run.events = <<>> /\ run.results = EmptyMap /\ cache = <<>>
    /\ (Called /\ run.exc = "ValueError") => HasCycle(run.edges)

\* The same for pipelines whose edges all join nodes of the pipeline.
WellFormedCycleRejected ==
    (Called /\ WellFormed) =>
        /\ HasCycle(run.edges) =>
              /\ run.pc = "raised" /\ run.exc = "ValueError"
              /\ run.events = <<>> /\ run.results = EmptyMap /\ cache = <<>>
        /\ run.exc = "ValueError" => HasCycle(run.edges)

\* A well-formed two-node cycle was rejected.
WellFormedCycleReached ==
    /\ run.nodes = <<"a", "b">> /\ run.edges = <<<<"a", "b">>, <<"b", "a">>>>
    /\ run.pc = "raised" /\ run.exc = "ValueError"

(***************************************************************************)
(* ProjectStore: one directory per project slug under projects/, holding   *)
(* meta.json and the pipelines and dashboards of the project.              *)
(***************************************************************************)
\* Project names, as sequences of characters.
ProjectNames == {<<"A">>, <<"a">>, <<"A", "-">>, <<"a", " ">>, <<"a", "_">>}

\* name.lower().replace(" ", "_").replace("-", "_")
SlugChar(c) ==
    LET l == IF c = "A" THEN "a" ELSE c
        u == IF l = " " THEN "_" ELSE l
    IN IF u = "-" THEN "_" ELSE u
Slug(name) == [i \in DOMAIN name |-> SlugChar(name[i])]

\* The directory names, in the order sorted(iterdir()) lists them.
SortedSlugs == <<<<"a">>, <<"a", "_">>>>
Slugs == Range(SortedSlugs)

\* Variant of create_project that creates the directories with exist_ok and
\* does not look for an existing project first.
create_project_overwrite(st, name, now) ==
    LET slug == Slug(name)
    IN [store |-> [st EXCEPT ![slug].exists = TRUE,
                             ![slug].meta = [name |-> name, slug |-> slug, created_at |-> now]],
        exc |-> "none"]

\* ProjectStore.create_project(name) at clock reading now.
create_project(st, name, now) ==
    LET slug == Slug(name)
    IN IF st[slug].exists THEN [store |-> st, exc |-> "ValueError"]
       ELSE [store |-> [st EXCEPT ![slug] =
                           [exists |-> TRUE,
                            meta |-> [name |-> name, slug |-> slug, created_at |-> now],
                            pipelines |-> "none", dashboards |-> "none"]],
             exc |-> "none"]

\* ProjectStore.list_projects: the metadata of every directory that has one.
list_projects(st) ==
    LET dirs == SelectSeq(SortedSlugs, LAMBDA d : st[d].exists /\ st[d].meta # NoMeta)
    IN [i \in DOMAIN dirs |-> st[dirs[i]].meta]

pRest == <<tbl, rtbl, ops, g, root, plan, result_ptr, result, pc, gLive, gFrees, sysVars, sym,
           run, cache, pinned, moreVars>>

\* store.create_project(name), directly or through POST /api/projects,
\* which answers 409 to the ValueError.
CreateProject ==
    /\ \E name \in ProjectNames, now \in {1, 2}, via \in {"create_project", "POST /api/projects"} :
          LET r == create_project(store, name, now)
          IN /\ call' = [fn |-> via, arg |-> name]
             /\ store' = r.store
             /\ outcome' = IF r.exc = "none" THEN "created"
                           ELSE IF via = "create_project" THEN r.exc ELSE "409"
             /\ returned' = IF r.exc = "none" THEN r.store[Slug(name)].meta ELSE NoTable
    /\ UNCHANGED pRest

\* store.delete_project(slug): the directory and all it holds is removed.
DeleteProject ==
    /\ \E slug \in Slugs :
          /\ call' = [fn |-> "delete_project", arg |-> slug]
          /\ store' = IF store[slug].exists THEN [store EXCEPT ![slug] = NoProject] ELSE store
          /\ outcome' = IF store[slug].exists THEN "True" ELSE "False"
          /\ returned' = NoTable
    /\ UNCHANGED pRest

\* store.save_pipeline / save_dashboard(slug, name, data): the directory is
\* made with parents when missing, the file written.
SaveFile ==
    /\ \E slug \in Slugs, kind \in {"pipelines", "dashboards"}, data \in {"v1", "v2"} :
          /\ call' = [fn |-> "save", arg |-> slug]
          /\ store' = [store EXCEPT ![slug].exists = TRUE, ![slug][kind] = data]
          /\ outcome' = "None"
          /\ returned' = NoTable
    /\ UNCHANGED pRest

\* store.list_projects()
ListProjects ==
    /\ call' = [fn |-> "list_projects", arg |-> <<>>]
    /\ returned' = list_projects(store)
    /\ outcome' = "list"
    /\ UNCHANGED <<pRest, store>>

InitStore ==
    /\ tbl = NoTable
    /\ rtbl = EmptyRight
    /\ call = [fn |-> "none", arg |-> <<>>]
    /\ ops = <<>>
    /\ CallStart
    /\ heap = <<>> /\ h = NoHandles /\ held = {} /\ fs = <<>> /\ ctx = NoCtx
    /\ sym = NoSym /\ run = NoRun /\ cache = <<>> /\ pinned = 0
    /\ store = [d \in Slugs |-> NoProject]
    /\ MoreIdle

NextStore == CreateProject \/ DeleteProject \/ SaveFile \/ ListProjects

SpecStore == InitStore /\ [][NextStore]_vars

IsCreate(c) == c.fn \in {"create_project", "POST /api/projects"}

\* C18: a create whose slug is already a directory raises ValueError (409
\* through the API) and changes nothing in the store, whatever name led to
\* that slug, and after every call list_projects has no slug twice.
C18_DuplicateSlugRejected ==
    [][/\ (IsCreate(call') /\ store[Slug(call'.arg)].exists) =>
             /\ store' = store
             /\ outcome' = IF call'.fn = "create_project" THEN "ValueError" ELSE "409"
       /\ \A i, j \in DOMAIN list_projects(store') :
             list_projects(store')[i].slug = list_projects(store')[j].slug => i = j]_vars

\* A create through the API was refused for a project that was created
\* under another name of the same slug and holds a pipeline and a dashboard.
C18_Witness ==
    /\ call.fn = "POST /api/projects" /\ outcome = "409"
    /\ store[Slug(call.arg)].meta # NoMeta
    /\ store[Slug(call.arg)].meta.name # call.arg
    /\ store[Slug(call.arg)].pipelines = "v1"
    /\ store[Slug(call.arg)].dashboards = "v2"
    /\ Len(list_projects(store)) = 2

(***************************************************************************)
(* Lifetime of the ctypes arrays whose pointers keyed nodes receive.       *)
(***************************************************************************)
\* Arrays a node constructor was handed: keys, opcodes and inputs of a
\* group, keys and directions of a sort, left and right keys of a join.
NodeArrays(nd) ==
    IF nd.op = "group" THEN 3 ELSE IF nd.op \in {"sort", "join"} THEN 2 ELSE 0

RECURSIVE GraphArrays(_)
GraphArrays(gr) ==
    IF gr = <<>> THEN 0
    ELSE GraphArrays(SubSeq(gr, 1, Len(gr) - 1)) + NodeArrays(gr[Len(gr)])

\* Execute has not returned yet.
BeforeExecuteReturns == pc \in {"built", "optimized"}

\* C19: from the construction of a keyed node until execute has returned,
\* every array handed to the graph is still referenced by Python.
C19_ArraysOutliveExecute ==
    BeforeExecuteReturns => pinned >= GraphArrays(g)

\* The same for graphs built by Query._execute_ops, whose arrays collect
\* holds in _pinned until it returns.
CollectPinsArrays ==
    (BeforeExecuteReturns /\ call.fn = "collect") =>
        /\ pinned >= GraphArrays(g)
        /\ HasGroupNode(g) => pinned > 0

\* A collect with a group node is about to execute.
CollectPinsArraysReached ==
    pc = "optimized" /\ call.fn = "collect" /\ HasGroupNode(g) /\ pinned = GraphArrays(g)

(***************************************************************************)
(* Lifetime of the graph of a collect or join call.                        *)
(***************************************************************************)
GraphCall == call.fn \in {"collect", "join"}

\* C20: the graph of a collect or join call exists from graph_new until the
\* call ends, is freed exactly once on every way out (a build error, a
\* failed execute, success), and the table handed back on success still
\* reads as the value execute produced after the graph is gone.
C20_GraphFreedOnce ==
    GraphCall =>
        /\ gFrees = IF pc = "done" THEN 1 ELSE 0
        /\ gLive <=> pc \in {"built", "optimized", "executed"}
        /\ (pc = "done" /\ outcome = "Table") =>
              /\ returned.kind = "table"
              /\ returned = Eval(g, root, plan, <<tbl, rtbl>>)

\* A join raised while its graph was being built, after graph_new.
C20_Witness ==
    /\ call.fn = "join" /\ pc = "done" /\ outcome = "KeyError"
    /\ g # <<>> /\ gFrees = 1 /\ ~gLive

\* A collect returned a table of rows after its graph was freed.
GraphFreedTableReturned ==
    /\ call.fn = "collect" /\ pc = "done" /\ outcome = "Table"
    /\ NRows(returned) > 0 /\ gFrees = 1 /\ ~gLive

(***************************************************************************)
(* The executor, one node at a time: execute(graph, root) evaluates a node *)
(* once its inputs are ready and keeps the value for every parent.         *)
(***************************************************************************)
\* What the executor holds for node i: its value, or nothing yet.
ValOf(e, i) == IF i \in DOMAIN e.vals THEN e.vals[i] ELSE NoTable
TimesOf(e, i) == IF i \in DOMAIN e.order THEN e.order[i] ELSE 0

\* Value of node id from the values the executor e holds for its input nodes.
EvalNode(gr, id, pl, tables, e) ==
    LET nd == gr[id]
        In(c) == ValOf(e, c)
    IN CASE nd.op = "scan" ->
              IF HasCol(tables[BoundHandle], nd.name)
              THEN MkVec(ColData(tables[BoundHandle], nd.name)) ELSE ErrVal
         [] nd.op \in {"const_i64", "const_f64", "const_bool"} -> MkAtom(nd.val)
         [] nd.op = "const_table" -> tables[nd.val]
         [] nd.op = "const_vec" -> MkVec(ColData(tables[nd.val], nd.name))
         [] nd.op \in BinOps -> EvalBinary(nd.op, In(nd.a), In(nd.b))
         [] nd.op = "filter" -> EvalFilter(In(nd.a), In(nd.b))
         [] nd.op = "head" -> EvalHead(In(nd.a), nd.val)
         [] nd.op = "reduce" ->
              LET x == In(nd.a)
              IN IF x.kind # "vec" THEN ErrVal
                 ELSE MkAtom(AccFinal(nd.val, ReduceVec(nd.val, x.data, Len(x.data))))
         [] nd.op = "group" ->
              LET kv == [j \in DOMAIN nd.keys |-> In(nd.keys[j])]
                  iv == [j \in DOMAIN nd.ins |-> In(nd.ins[j])]
              IN IF Len(kv) = 0 \/ ~AllVecs(kv \o iv) THEN ErrVal
                 ELSE MkTable([j \in DOMAIN nd.keys |-> NodeName(gr, nd.keys[j])]
                              \o [j \in DOMAIN nd.ins |->
                                     NodeName(gr, nd.ins[j]) \o AggSuffix(nd.ops[j])],
                              RowsToCols(GroupRows(pl, DataOf(kv), nd.ops, DataOf(iv)),
                                         Len(kv) + Len(iv)))
         [] nd.op = "sort" ->
              LET t == In(nd.a)
                  kv == [j \in DOMAIN nd.keys |-> In(nd.keys[j])]
              IN IF t.kind # "table" \/ Len(kv) = 0 \/ ~AllVecs(kv) THEN ErrVal
                 ELSE IF Len(kv[1].data) # NRows(t) THEN ErrVal
                 ELSE PermuteTable(t, SortPerm(DataOf(kv), nd.ops, NRows(t)))
         [] OTHER -> ErrVal

Evaluated(e) == {i \in DOMAIN e.vals : e.vals[i].kind # "none"}
Failed(e) == \E i \in Evaluated(e) : e.vals[i].kind = "err"

\* The executor's record after node id was evaluated to v.
Visit(gr, e, id, v) ==
    [vals |-> [i \in DOMAIN gr |-> IF i = id THEN v ELSE ValOf(e, i)],
     order |-> [i \in DOMAIN gr |-> TimesOf(e, i) + IF i = id THEN 1 ELSE 0]]

\* Variant of ReadyNodes in which a parent evaluates its input again
\* although another parent already did.
ReadyNodesPerParent(gr, rt, e) ==
    {id \in ReachFrom(gr, rt) :
        /\ TimesOf(e, id) < 2
        /\ \/ id = rt /\ id \notin Evaluated(e)
           \/ \E p \in ReachFrom(gr, rt) : id \in Children(gr[p]) /\ p \notin Evaluated(e)
        /\ Children(gr[id]) \subseteq Evaluated(e)}

\* Variant of ReadyNodes that walks every node of the arena, reachable from
\* the root or not.
ReadyNodesAll(gr, rt, e) ==
    {id \in DOMAIN gr : id \notin Evaluated(e) /\ Children(gr[id]) \subseteq Evaluated(e)}

\* Nodes the executor may evaluate next: below the root, not evaluated yet,
\* every input evaluated.
ReadyNodes(gr, rt, e) ==
    {id \in ReachFrom(gr, rt) :
        id \notin Evaluated(e) /\ Children(gr[id]) \subseteq Evaluated(e)}

\* execute, one node: evaluate a ready node from the kept values of its
\* inputs.  A failed node is fatal for the execution: nothing is evaluated
\* after it.
EvalStep ==
    /\ pc = "optimized"
    /\ root \notin Evaluated(ex)
    /\ ~Failed(ex)
    /\ \E id \in ReadyNodes(g, root, ex) :
          ex' = Visit(g, ex, id, EvalNode(g, id, plan, <<tbl, rtbl>>, ex))
    /\ UNCHANGED exRest

\* execute returns: the root's value, or an error sentinel and no output
\* when a node failed.
ExecuteReturn ==
    /\ pc = "optimized"
    /\ root \in Evaluated(ex) \/ Failed(ex)
    /\ IF Failed(ex)
       THEN /\ result_ptr' \in ErrCodes
            /\ result' = ErrVal
       ELSE /\ result_ptr' = ResultPtr
            /\ result' = ValOf(ex, root)
    /\ pc' = "executed"
    /\ UNCHANGED <<sysVars, extVars, tbl, rtbl, call, ops, g, root, plan, returned, outcome,
                   gLive, gFrees>>

TwoKeys == <<"id1", "id2">>
MinMaxV == <<Agg(OP_MIN, Col("v")), Agg(OP_MAX, Col("v"))>>

ExecPipelines ==
    {<<FilterOp(PredGt), GroupOp(TwoKeys, MinMaxV)>>,
     <<FilterOp(PredGt), GroupOp(<<"id1">>, SumV)>>,
     <<FilterOp(PredMissing), GroupOp(<<"id1">>, SumV)>>,
     <<GroupOp(<<"id1">>, SumV)>>,
     <<FilterOp(PredGt)>>,
     <<FilterOp(PredMissing)>>,
     <<HeadOp(1), FilterOp(PredGt)>>,
     <<GroupOp(<<"id1">>, SumV), FilterOp(PredMissing)>>}

\* Tables whose two key columns hold the same ids.
ExecTables == {t \in Tables : t.cols[2] = t.cols[1]}

\* Comparison operators _run_filter_group knows (its cmp_map).
AdapterCmpOps == {"ge", "le", "gt", "lt", "eq"}

RECURSIVE ScanEach(_, _, _)
ScanEach(gr, names, i) ==
    IF i = 0 THEN [g |-> gr, nodes |-> <<>>]
    ELSE LET prev == ScanEach(gr, names, i - 1)
         IN [g |-> Append(prev.g, Leaf("scan", names[i], 0)),
             nodes |-> Append(prev.nodes, Len(prev.g) + 1)]

\* The graph _run_filter_group builds: predicate, a filter over the
\* predicate's own scan, then key scans, aggregate-input scans and the Group
\* over those scans.
RunFilterGroupGraph(filter_spec, key_names, agg_ops, agg_col_names) ==
    LET g3 == <<Leaf("scan", filter_spec[1], 0), Leaf("const_i64", "", filter_spec[3]),
                Inner(filter_spec[2], 1, 2, 0)>>
        g4 == Append(g3, Inner("filter", 1, 3, 0))
        ks == ScanEach(g4, key_names, Len(key_names))
        is == ScanEach(ks.g, agg_col_names, Len(agg_col_names))
    IN IF filter_spec[2] \notin AdapterCmpOps THEN [g |-> SubSeq(g3, 1, 2), current |-> 0,
                                                    exc |-> "KeyError"]
       ELSE [g |-> Append(is.g, Node("group", 0, 0, "", 0, ks.nodes, agg_ops, is.nodes)),
             current |-> Len(is.g) + 1, exc |-> "none"]

AdapterCall == [fn |-> "filter_group", on |-> <<>>, how |-> "", descs |-> <<>>]

\* _run_filter_group, first half: graph_new and the node construction.  The
\* three ctypes arrays are locals of the function and live until it returns.
RunFilterGroupBuild ==
    /\ pc = "start"
    /\ call.fn = "filter_group"
    /\ LET e == ops[1].expr
           st == RunFilterGroupGraph(<<e.left.name, e.op, e.right.value>>, ops[2].keys,
                                     [j \in DOMAIN ops[2].aggs |-> ops[2].aggs[j].op],
                                     [j \in DOMAIN ops[2].aggs |-> ops[2].aggs[j].arg.name])
       IN /\ IF st.exc # "none" THEN Raise(st.exc, st.g) ELSE Built(st.g, st.current)
          /\ pinned' = IF st.exc # "none" THEN 0 ELSE 3
    /\ UNCHANGED <<sysVars, extRest, tbl, rtbl, call, ops>>

\* _run_filter_group, second half: check the handle, wrap it, free the graph.
RunFilterGroupReturn ==
    /\ pc = "executed"
    /\ call.fn = "filter_group"
    /\ IF IsFailure(result_ptr)
       THEN outcome' = "RuntimeError" /\ returned' = NoTable
       ELSE outcome' = "Table" /\ returned' = result
    /\ pc' = "done"
    /\ gLive' = FALSE
    /\ gFrees' = gFrees + 1
    /\ pinned' = 0
    /\ UNCHANGED <<sysVars, extRest, tbl, rtbl, call, ops, g, root, plan, result_ptr, result>>

InitExec ==
    /\ tbl \in ExecTables
    /\ rtbl = EmptyRight
    /\ ops \in ExecPipelines
    /\ \/ call = CollectCall
       \/ call = AdapterCall /\ Len(ops) = 2 /\ ops[1].op = "filter"
    /\ CallStart
    /\ SysIdle

NextExec ==
    \/ CollectBuild \/ RunFilterGroupBuild \/ Optimize \/ EvalStep \/ ExecuteReturn
    \/ CollectReturn \/ RunFilterGroupReturn

SpecExec == InitExec /\ [][NextExec]_vars

Parents(gr, rt, id) == {p \in ReachFrom(gr, rt) : id \in Children(gr[p])}

\* C21: during one execute call every node below the root is evaluated at
\* most once, a node is evaluated only when all of its inputs have been,
\* and the value kept for a node (also one shared by several parents) is
\* the value of its subtree, so every parent reads the same result.
C21_EvaluatedOnceInputsFirst ==
    pc \in {"optimized", "executed", "done"} /\ root # 0 =>
        /\ \A id \in DOMAIN g : TimesOf(ex, id) <= 1
        /\ \A id \in Evaluated(ex) :
              /\ TimesOf(ex, id) = 1
              /\ Children(g[id]) \subseteq Evaluated(ex)
              /\ ex.vals[id] = Eval(g, id, plan, <<tbl, rtbl>>)

\* A filter predicate with four parents (two key scans and two aggregate
\* inputs of one Group) was evaluated once and the Group was computed.
C21_Witness ==
    /\ pc = "done" /\ outcome = "Table" /\ NRows(returned) > 0
    /\ \E id \in Evaluated(ex) :
          /\ Cardinality(Parents(g, root, id)) = 4
          /\ TimesOf(ex, id) = 1
    /\ root \in Evaluated(ex)

(***************************************************************************)
(* A filter followed by a group-by, through Query.collect and through the  *)
(* benchmark adapter's _run_filter_group.                                  *)
(***************************************************************************)
PredGe == BinOp("ge", Col("v"), Lit("int", 2))

FilterGroupOps ==
    {<<FilterOp(p), GroupOp(k, a)>> :
        p \in {PredGe, PredEq}, k \in GroupKeyChoices, a \in {SumV, MinMaxV}}

InitFilterGroup ==
    /\ tbl \in Tables
    /\ rtbl = EmptyRight
    /\ call \in {CollectCall, AdapterCall}
    /\ ops \in FilterGroupOps
    /\ CallStart
    /\ SysIdle

NextFilterGroup ==
    \/ CollectBuild \/ RunFilterGroupBuild \/ Optimize \/ Execute
    \/ CollectReturn \/ RunFilterGroupReturn

SpecFilterGroup == InitFilterGroup /\ [][NextFilterGroup]_vars

\* The rows that satisfy the predicate, materialized, then grouped.
FilterThenGroup ==
    LET ft == PermuteTable(tbl, Satisfying(tbl, ops[1].expr))
        gg == ExecuteOps(<<ops[2]>>)
    IN Eval(gg.g, gg.current, plan, <<ft, rtbl>>)

\* Every key and every aggregate input of the Group at the root is a filter
\* node, all with one and the same predicate node.
PredicateOnEveryInput ==
    /\ g[root].op = "group"
    /\ \E p \in DOMAIN g :
          \A id \in Range(g[root].keys) \cup Range(g[root].ins) :
              g[id].op = "filter" /\ g[id].b = p

FilterGroupDone == pc = "done" /\ ops \in FilterGroupOps

\* C22: a filter followed by group_by puts the one predicate on every key
\* scan and every aggregate input of the Group, and the grouped result is
\* the result of grouping the materialized rows that satisfy the predicate.
C22_FilterThenGroup ==
    FilterGroupDone =>
        /\ PredicateOnEveryInput
        /\ outcome = "Table"
        /\ returned = FilterThenGroup

\* Through Query.collect the predicate is on every input, the result is the
\* group of the filtered rows, and the pending predicate is consumed.
CollectFilterThenGroup ==
    FilterGroupDone /\ call.fn = "collect" =>
        /\ PredicateOnEveryInput
        /\ outcome = "Table"
        /\ returned = FilterThenGroup
        /\ ExecuteOpsFrom(ops, 1, [g |-> <<>>, current |-> 0, filter_pred |-> 0,
                                   pinned |-> 0, exc |-> "none"]).filter_pred = 0

\* A collect whose filter drops a row and keeps a row of a two-row table.
CollectFilterThenGroupReached ==
    /\ FilterGroupDone /\ call.fn = "collect" /\ outcome = "Table"
    /\ NRows(tbl) = 2 /\ Len(Satisfying(tbl, ops[1].expr)) = 1
    /\ NRows(returned) = 1

(***************************************************************************)
(* Keyed operators and their paired arrays: requests whose direction list  *)
(* does not match the key list.                                            *)
(***************************************************************************)
DescLists == UNION {[1..n -> {0, 1}] : n \in 0..3}

InitKeyed ==
    /\ tbl \in TablesOfLen(MaxRows)
    /\ rtbl = EmptyRight
    /\ \E cols \in SortKeyChoices, d \in DescLists :
          \/ /\ call = CollectCall
             /\ ops = <<[op |-> "sort", keys |-> cols, descs |-> [i \in DOMAIN d |-> d[i] = 1]]>>
          \/ /\ call = [fn |-> "run_sort", on |-> cols, how |-> "", descs |-> d]
             /\ ops = <<>>
    /\ CallStart
    /\ SysIdle

NextKeyed == CollectBuild \/ RunSortBuild \/ Optimize \/ Execute \/ RunSortReturn

SpecKeyed == InitKeyed /\ [][NextKeyed]_vars

\* Keyed nodes of the graph have a key and paired arrays of one length.
KeyedNodesPaired ==
    \A i \in DOMAIN g :
        /\ g[i].op \in {"group", "sort", "join"} => Len(g[i].keys) >= 1
        /\ g[i].op = "sort" => Len(g[i].ops) = Len(g[i].keys)
        /\ g[i].op = "group" => Len(g[i].ops) = Len(g[i].ins)
        /\ g[i].op = "join" => Len(g[i].ins) = Len(g[i].keys)

RequestedDirs == IF call.fn = "run_sort" THEN call.descs ELSE ops[1].descs
RequestedSortKeys == IF call.fn = "run_sort" THEN call.on ELSE ops[1].keys
DirsMismatch == Len(RequestedDirs) # Len(RequestedSortKeys)

\* C23: every keyed node that is constructed has a key and paired arrays of
\* equal length, and a sort request whose direction list differs in length
\* from its key list is rejected while the node is built: it raises, no
\* sort node exists and execute is never reached.
C23_KeyedNodesWellFormed ==
    /\ KeyedNodesPaired
    /\ DirsMismatch =>
          /\ pc \in {"start", "done"}
          /\ pc = "done" => outcome \in {"IndexError", "ValueError", "TypeError"}
          /\ \A i \in DOMAIN g : g[i].op # "sort"

\* What the wrappers do guarantee: constructed nodes are paired, and a
\* direction list longer than the key list raises IndexError before the
\* node is built.
LongDirsRejected ==
    /\ KeyedNodesPaired
    /\ Len(RequestedDirs) > Len(RequestedSortKeys) =>
          /\ pc \in {"start", "done"}
          /\ pc = "done" => outcome = "IndexError"
          /\ \A i \in DOMAIN g : g[i].op # "sort"

LongDirsRejectedReached ==
    /\ pc = "done" /\ call.fn = "run_sort" /\ outcome = "IndexError"
    /\ Len(call.on) = 2 /\ Len(call.descs) = 3

\* run_sort with two keys and one direction flag sorted the table.
ShortDirsSorted ==
    /\ pc = "done" /\ call.fn = "run_sort" /\ outcome = "Table"
    /\ Len(call.on) = 2 /\ Len(call.descs) = 1

(***************************************************************************)
(* Nodes of the arena that the root does not reach.                        *)
(***************************************************************************)
DeadNodes(gr, rt) == DOMAIN gr \ ReachFrom(gr, rt)

\* Position of node id among the nodes the root reaches, in arena order.
NewId(gr, rt, id) ==
    IF id = 0 THEN 0 ELSE Cardinality({j \in ReachFrom(gr, rt) : j <= id})

RECURSIVE LiveIds(_, _, _)
LiveIds(gr, rt, i) ==
    IF i = 0 THEN <<>>
    ELSE IF i \in ReachFrom(gr, rt) THEN Append(LiveIds(gr, rt, i - 1), i)
    ELSE LiveIds(gr, rt, i - 1)

\* The same graph without its dead nodes: the live nodes in arena order,
\* their input references renumbered.
Pruned(gr, rt) ==
    LET live == LiveIds(gr, rt, Len(gr))
    IN [g |-> [k \in DOMAIN live |->
                  LET nd == gr[live[k]]
                  IN [nd EXCEPT !.a = NewId(gr, rt, nd.a), !.b = NewId(gr, rt, nd.b),
                                !.keys = [j \in DOMAIN nd.keys |-> NewId(gr, rt, nd.keys[j])],
                                !.ins = IF nd.op = "sort" THEN nd.ins
                                        ELSE [j \in DOMAIN nd.ins |-> NewId(gr, rt, nd.ins[j])]]],
        root |-> NewId(gr, rt, rt)]

ExecuteCalled == pc \in {"optimized", "executed", "done"} /\ root # 0

\* C24: execute never evaluates a node the root does not reach, and what it
\* returns is what the graph without those nodes evaluates to.
C24_DeadNodesNotExecuted ==
    ExecuteCalled =>
        /\ \A id \in DeadNodes(g, root) : TimesOf(ex, id) = 0 /\ id \notin Evaluated(ex)
        /\ pc \in {"executed", "done"} =>
              LET pr == Pruned(g, root)
                  v == Eval(pr.g, pr.root, plan, <<tbl, rtbl>>)
              IN /\ result = v
                 /\ result_ptr = ResultPtr <=> v.kind # "err"

\* A collect returned the rows of its table although the graph holds a
\* dead scan of a column the table does not have.
C24_Witness ==
    /\ pc = "done" /\ outcome = "Table" /\ NRows(returned) = 2
    /\ \E id \in DeadNodes(g, root) : Eval(g, id, plan, <<tbl, rtbl>>).kind = "err"
    /\ Evaluated(ex) = ReachFrom(g, root)

\* The adapter's filter node is dead and its Group was evaluated.
AdapterFilterDead ==
    /\ pc = "done" /\ call.fn = "filter_group" /\ outcome = "Table" /\ NRows(returned) > 0
    /\ \E id \in DeadNodes(g, root) : g[id].op = "filter"

(***************************************************************************)
(* Aggregates of a Group, against their definition on the rows of a group. *)
(***************************************************************************)
FourAggsA == <<Agg(OP_SUM, Col("v")), Agg(OP_PROD, Col("v")), Agg(OP_MIN, Col("v")),
               Agg(OP_MAX, Col("v"))>>
FourAggsB == <<Agg(OP_COUNT, Col("v")), Agg(OP_AVG, Col("v")), Agg(OP_FIRST, Col("v")),
               Agg(OP_LAST, Col("v"))>>

InitAgg ==
    /\ tbl \in Tables
    /\ rtbl = EmptyRight
    /\ call = CollectCall
    /\ \E keys \in GroupKeyChoices, aggs \in {FourAggsA, FourAggsB} :
          ops = <<GroupOp(keys, aggs)>>
    /\ CallStart
    /\ SysIdle

NextAgg == CollectBuild \/ Optimize \/ Execute \/ CollectReturn

SpecAgg == InitAgg /\ [][NextAgg]_vars

\* Rows of t whose key columns hold the tuple key, in input order.
RowsOfGroup(t, op, key) ==
    SelectSeq(SeqOf(NRows(t)), LAMBDA i : KeyAt(RequestedKeys(t, op), i) = key)

\* The values of column name on those rows, and the non-null ones among them.
GroupValues(t, op, key, name) ==
    [k \in DOMAIN RowsOfGroup(t, op, key) |-> ColData(t, name)[RowsOfGroup(t, op, key)[k]]]
NonNull(vals) == SelectSeq(vals, LAMBDA v : v # NullI64)

RECURSIVE SumOf(_)
SumOf(vals) == IF vals = <<>> THEN 0 ELSE vals[1] + SumOf(Tail(vals))
RECURSIVE ProdOf(_)
ProdOf(vals) == IF vals = <<>> THEN 1 ELSE vals[1] * ProdOf(Tail(vals))

\* The definition says nothing about min, max and avg of no value.
Specified(op, vals) == op \in {OP_MIN, OP_MAX, OP_AVG} => NonNull(vals) # <<>>

\* What aggregate op of the values is, by its definition.
AggregateOf(op, vals) ==
    LET nn == NonNull(vals)
    IN CASE op = OP_SUM -> SumOf(nn)
         [] op = OP_PROD -> ProdOf(nn)
         [] op = OP_MIN -> CHOOSE m \in Range(nn) : \A v \in Range(nn) : m <= v
         [] op = OP_MAX -> CHOOSE m \in Range(nn) : \A v \in Range(nn) : m >= v
         [] op = OP_COUNT -> Len(nn)
         [] op = OP_AVG -> <<SumOf(nn), Len(nn)>>
         [] op = OP_FIRST -> vals[1]
         [] OTHER -> vals[Len(vals)]

GroupKeysOf(t, op) == {KeyAt(RequestedKeys(t, op), i) : i \in 1..NRows(t)}

AggDone == pc = "done" /\ ops # <<>> /\ ops[1].op = "group" /\ Len(ops[1].aggs) = 4

\* C25: a Group returns one row per distinct key, and in that row every
\* requested aggregate is the aggregate of the group's values as defined:
\* sum and prod fold the non-null values from the identity, min and max are
\* the least and greatest non-null value, count is the number of non-null
\* values, avg is their sum over their count, first and last are the first
\* and the last value seen; all aggregates of the Group share the groups.
C25_AggregateSemantics ==
    AggDone =>
        LET op == ops[1]
            nk == Len(op.keys)
            rows == RowsOf(returned)
        IN /\ outcome = "Table"
           /\ Len(returned.cols) = nk + Len(op.aggs)
           /\ {SubSeq(rows[r], 1, nk) : r \in DOMAIN rows} = GroupKeysOf(tbl, op)
           /\ Len(rows) = Cardinality(GroupKeysOf(tbl, op))
           /\ \A r \in DOMAIN rows : \A j \in DOMAIN op.aggs :
                 LET vals == GroupValues(tbl, op, SubSeq(rows[r], 1, nk), op.aggs[j].arg.name)
                 IN Specified(op.aggs[j].op, vals) =>
                       rows[r][nk + j] = AggregateOf(op.aggs[j].op, vals)

\* One group of two rows, a null and a 2: count is 1 and the average is 2/1.
C25_Witness ==
    /\ AggDone /\ outcome = "Table" /\ ops[1].aggs = FourAggsB
    /\ NRows(tbl) = 2 /\ NRows(returned) = 1
    /\ ColData(tbl, "v") = <<NullI64, 2>>
    /\ RowsOf(returned)[1][Len(ops[1].keys) + 1] = 1
    /\ RowsOf(returned)[1][Len(ops[1].keys) + 2] = <<2, 1>>

\* Sum and product differ on a group of two rows.
SumProdReached ==
    /\ AggDone /\ outcome = "Table" /\ ops[1].aggs = FourAggsA
    /\ NRows(returned) = 1 /\ ColData(tbl, "v") = <<1, 2>>
    /\ RowsOf(returned)[1][Len(ops[1].keys) + 1] = 3
    /\ RowsOf(returned)[1][Len(ops[1].keys) + 2] = 2

(***************************************************************************)
(* /ws/run: the executor runs in a thread and its callbacks put messages   *)
(* on msg_queue; the handler's loop takes them off and sends them.         *)
(***************************************************************************)
\* msg_queue: the callbacks' messages that have not been taken yet.
MsgQueue == SubSeq(run.events, ws.taken + 1, Len(run.events))

\* asyncio.to_thread(executor.run, pipeline, callbacks): no session id and
\* no start_from.
WsRunExecutor ==
    /\ ws.pc # "none"
    /\ run.pc = "idle"
    /\ RunCall
    /\ run'.session_id = "" /\ run'.start_from = ""

\* The executor thread has ended and the event loop has marked the task.
WsTaskDone ==
    /\ ws.pc # "none"
    /\ run.pc \in {"returned", "raised"}
    /\ ~ws.done
    /\ ws' = [ws EXCEPT !.done = TRUE]
    /\ UNCHANGED wsRest

\* Variant of WsLoopTest that awaits the result as soon as the task is done.
WsLoopTestNoDrain ==
    /\ ws.pc = "loop"
    /\ ws' = [ws EXCEPT !.pc = IF ws.done THEN "await" ELSE "get"]
    /\ UNCHANGED wsRest

\* while not executor_task.done()
WsLoopTest ==
    /\ ws.pc = "loop"
    /\ ws' = [ws EXCEPT !.pc = IF ws.done THEN "drain" ELSE "get"]
    /\ UNCHANGED wsRest

\* msg_queue.get(timeout=0.05): the oldest message, or queue.Empty.
WsGet ==
    /\ ws.pc = "get"
    /\ ws' = IF MsgQueue # <<>>
             THEN [ws EXCEPT !.pc = "send", !.msg = <<Head(MsgQueue)>>, !.taken = @ + 1]
             ELSE [ws EXCEPT !.pc = "loop"]
    /\ UNCHANGED wsRest

\* await ws.send_json(msg)
WsSend ==
    /\ ws.pc = "send"
    /\ ws' = [ws EXCEPT !.pc = "loop", !.msg = <<>>, !.sent = Append(@, ws.msg[1])]
    /\ UNCHANGED wsRest

\* After the loop: get_nowait and send until the queue is empty.
WsDrain ==
    /\ ws.pc = "drain"
    /\ ws' = IF MsgQueue # <<>>
             THEN [ws EXCEPT !.taken = @ + 1, !.sent = Append(@, Head(MsgQueue))]
             ELSE [ws EXCEPT !.pc = "await"]
    /\ UNCHANGED wsRest

\* results = await executor_task, pipeline_done; an exception of the
\* executor is sent as an error message instead.  Then ws.close().
WsFinish ==
    /\ ws.pc = "await"
    /\ run.pc \in {"returned", "raised"}
    /\ ws' = [ws EXCEPT !.pc = "closed",
                        !.sent = Append(@, IF run.pc = "returned" THEN <<"pipeline_done", "">>
                                           ELSE <<"error", "">>)]
    /\ UNCHANGED wsRest

WsPipelines ==
    {[nodes |-> n, edges |-> e] :
        n \in {<<"a">>, <<"a", "b">>},
        e \in {<<>>, <<<<"a", "b">>>>, <<<<"b", "a">>>>, <<<<"a", "a">>>>, <<<<"a", "c">>>>}}

InitWs ==
    /\ tbl = NoTable
    /\ rtbl = EmptyRight
    /\ call = [fn |-> "run"]
    /\ ops = <<>>
    /\ CallStart
    /\ heap = <<>> /\ h = NoHandles /\ held = {} /\ fs = <<>> /\ ctx = NoCtx
    /\ sym = NoSym
    /\ \E p \in WsPipelines : run = [NoRun EXCEPT !.nodes = p.nodes, !.edges = p.edges]
    /\ cache = <<>>
    /\ store = NoStore
    /\ pinned = 0
    /\ ex = NoExec /\ sse = NoSse /\ po = NoPo /\ thr = NoThr
    /\ ws = [NoWs EXCEPT !.pc = "loop"]

NextWs ==
    \/ WsRunExecutor \/ NodeStart \/ NodeExecute \/ RunFinish
    \/ WsTaskDone \/ WsLoopTest \/ WsGet \/ WsSend \/ WsDrain \/ WsFinish

SpecWs == InitWs /\ [][NextWs]_vars

IsNodeMsg(m) == m[1] \in {"start", "done", "error"} /\ m[2] # ""
NodeMsgs(msgs) == SelectSeq(msgs, IsNodeMsg)

WsHeldWhenDone == ws.pc = "send" /\ ws.done /\ MsgQueue # <<>>

(***************************************************************************)
(* /api/pipelines/run-stream: a worker thread runs the executor and puts   *)
(* events on event_queue; the response generator takes them off.           *)
(***************************************************************************)
Sentinel == <<"None", "">>

\* event_queue: callback events, then what run_in_thread itself put, less
\* what the generator has taken.
EventQueue ==
    SubSeq(run.events \o sse.tail, sse.taken + 1, Len(run.events) + Len(sse.tail))

\* run_in_thread: executor.run(pipeline, callbacks, session_id, start_from).
SseRunExecutor ==
    /\ sse.thread = "started"
    /\ run.pc = "idle"
    /\ RunCall

\* run_in_thread after run: put the complete event, or the error event in
\* the except clause.
SseTerminal ==
    /\ sse.thread = "started"
    /\ run.pc \in {"returned", "raised"}
    /\ sse' = [sse EXCEPT !.thread = "finally",
                          !.tail = <<IF run.pc = "returned" THEN <<"complete", "">>
                                     ELSE <<"error", "">>>>]
    /\ UNCHANGED sseRest

\* Variant of SseSentinel that puts the sentinel only after a run that
\* returned.
SseSentinelAfterReturn ==
    /\ sse.thread = "finally"
    /\ sse' = [sse EXCEPT !.thread = "ended",
                          !.tail = IF run.pc = "returned" THEN Append(@, Sentinel) ELSE @]
    /\ UNCHANGED sseRest

\* finally: event_queue.put(None)
SseSentinel ==
    /\ sse.thread = "finally"
    /\ sse' = [sse EXCEPT !.thread = "ended", !.tail = Append(@, Sentinel)]
    /\ UNCHANGED sseRest

\* event_generator: a blocking get; the sentinel ends the generator, any
\* other event is yielded.
SseNext ==
    /\ sse.pc = "get"
    /\ EventQueue # <<>>
    /\ sse' = IF Head(EventQueue) = Sentinel
              THEN [sse EXCEPT !.pc = "closed", !.taken = @ + 1]
              ELSE [sse EXCEPT !.taken = @ + 1, !.out = Append(@, Head(EventQueue))]
    /\ UNCHANGED sseRest

InitSse ==
    /\ tbl = NoTable
    /\ rtbl = EmptyRight
    /\ call = [fn |-> "run"]
    /\ ops = <<>>
    /\ CallStart
    /\ heap = <<>> /\ h = NoHandles /\ held = {} /\ fs = <<>> /\ ctx = NoCtx
    /\ sym = NoSym
    /\ \E p \in WsPipelines : run = [NoRun EXCEPT !.nodes = p.nodes, !.edges = p.edges]
    /\ cache = <<>>
    /\ store = NoStore
    /\ pinned = 0
    /\ ex = NoExec /\ ws = NoWs /\ po = NoPo /\ thr = NoThr
    /\ sse = [NoSse EXCEPT !.pc = "get", !.thread = "started"]

SseWorker == SseRunExecutor \/ NodeStart \/ NodeExecute \/ RunFinish \/ SseTerminal \/ SseSentinel

NextSse ==
    \/ SseRunExecutor \/ NodeStart \/ NodeExecute \/ RunFinish \/ SseTerminal \/ SseSentinel
    \/ SseNext

\* The worker thread and the generator are both scheduled as long as they
\* can take a step.
SpecSse == InitSse /\ [][NextSse]_vars /\ WF_vars(SseWorker) /\ WF_vars(SseNext)

IsTerminal(m) == m[1] \in {"complete", "error"} /\ m[2] = ""

\* What the worker put is a terminal event, then the sentinel, nothing else;
\* what the generator emitted is in queue order and holds no sentinel.
StreamOrdered ==
    /\ Len(sse.tail) <= 2
    /\ Len(sse.tail) >= 1 =>
          /\ IsTerminal(sse.tail[1])
          /\ run.pc \in {"returned", "raised"}
          /\ sse.tail[1][1] = "complete" <=> run.pc = "returned"
    /\ Len(sse.tail) = 2 => sse.tail[2] = Sentinel
    /\ sse.thread = "ended" => Len(sse.tail) = 2
    /\ sse.out = SubSeq(run.events \o sse.tail, 1, Len(sse.out))
    /\ \A i \in DOMAIN sse.out : sse.out[i] # Sentinel
    /\ sse.pc = "closed" => sse.out = run.events \o <<sse.tail[1]>>

StreamCompleteReached ==
    /\ sse.pc = "closed" /\ run.pc = "returned" /\ Len(sse.out) = 5
    /\ sse.out[5] = <<"complete", "">>

(***************************************************************************)
(* Per-partition open of a partitioned database (bench_query_parted.py):   *)
(* the shared symbol file, discovery of the partition directories, and one *)
(* splay_open per partition.                                               *)
(***************************************************************************)
\* Partition directory names (they sort as dates do) and the entry "sym".
PartNames == {1, 2, 3}
SymEntry == 0

\* A partition directory holds the table with all its column files, the
\* table with a column file missing, or no directory of that table.
PartStates == {"ok", "nocol", "notable"}

RECURSIVE SortedSeqOf(_)
SortedSeqOf(S) ==
    IF S = {} THEN <<>>
    ELSE LET m == CHOOSE x \in S : \A y \in S : x <= y
         IN <<m>> \o SortedSeqOf(S \ {m})

\* discover_partitions: every listed name but "sym" whose table directory
\* exists, sorted.
discover_partitions(listing, dirs) ==
    SortedSeqOf({listing[i] : i \in {k \in DOMAIN listing :
                                        listing[k] # SymEntry /\ dirs[listing[k]] # "notable"}})

\* splay_open(path): a table handle, or an error sentinel when a column
\* file of the partition is missing.
SplayOpenResults(state) == IF state = "ok" THEN {ResultPtr} ELSE ErrCodes

\* main up to the discovery: a missing symbol file, or one sym_load cannot
\* read, ends the program.
PoSymLoad ==
    /\ po.pc = "start"
    /\ po' = IF po.sym # "ok" THEN [po EXCEPT !.pc = "exit"]
             ELSE [po EXCEPT !.pc = "discover"]
    /\ UNCHANGED poRest

PoDiscover ==
    /\ po.pc = "discover"
    /\ po' = [po EXCEPT !.pc = "open", !.parts = discover_partitions(po.listing, po.dirs),
                        !.i = 1]
    /\ UNCHANGED poRest

\* Variant of PoOpen that leaves the loop at the first partition that
\* fails to open.
PoOpenAbort ==
    /\ po.pc = "open"
    /\ po.i <= Len(po.parts)
    /\ LET name == po.parts[po.i]
       IN \E t \in SplayOpenResults(po.dirs[name]) :
             po' = IF IsFailure(t)
                   THEN [po EXCEPT !.failed = Append(@, name), !.i = Len(po.parts) + 1]
                   ELSE [po EXCEPT !.tables = Append(@, name), !.i = @ + 1]
    /\ UNCHANGED poRest

\* One iteration of the open loop: FAILED is printed for a partition that
\* does not open and the loop continues with the next one.
PoOpen ==
    /\ po.pc = "open"
    /\ po.i <= Len(po.parts)
    /\ LET name == po.parts[po.i]
       IN \E t \in SplayOpenResults(po.dirs[name]) :
             po' = IF IsFailure(t)
                   THEN [po EXCEPT !.failed = Append(@, name), !.i = @ + 1]
                   ELSE [po EXCEPT !.tables = Append(@, name), !.i = @ + 1]
    /\ UNCHANGED poRest

\* After the loop: the count of opened partitions is reported.
PoOpened ==
    /\ po.pc = "open"
    /\ po.i > Len(po.parts)
    /\ po' = [po EXCEPT !.pc = "done"]
    /\ UNCHANGED poRest

Listings == {l \in [1..(Cardinality(PartNames) + 1) -> PartNames \cup {SymEntry}] :
                \A i, j \in DOMAIN l : l[i] = l[j] => i = j}

InitPo ==
    /\ tbl = NoTable
    /\ rtbl = EmptyRight
    /\ call = [fn |-> "per-partition"]
    /\ ops = <<>>
    /\ CallStart
    /\ heap = <<>> /\ h = NoHandles /\ held = {} /\ fs = <<>> /\ ctx = NoCtx
    /\ sym = NoSym /\ run = NoRun /\ cache = <<>> /\ store = NoStore /\ pinned = 0
    /\ ex = NoExec /\ ws = NoWs /\ sse = NoSse /\ thr = NoThr
    /\ \E s \in {"ok", "missing", "unreadable"}, d \in [PartNames -> PartStates], l \in Listings :
          po = [pc |-> "start", sym |-> s, dirs |-> d,
                listing |-> IF s = "missing" THEN SelectSeq(l, LAMBDA x : x # SymEntry) ELSE l,
                parts |-> <<>>, i |-> 0, tables |-> <<>>, failed |-> <<>>]

NextPo == PoSymLoad \/ PoDiscover \/ PoOpen \/ PoOpened

SpecPo == InitPo /\ [][NextPo]_vars

WellFormedParts == {p \in PartNames : po.dirs[p] = "ok"}
BrokenParts == {p \in PartNames : po.dirs[p] = "nocol"}

\* C28: with the symbol file loaded, the partitions opened are exactly the
\* well-formed ones, in name order, wherever the broken ones stand, and
\* each broken one is reported as failed once; without a readable symbol
\* file the program ends before any partition is opened.
C28_BadPartitionSkipped ==
    /\ po.pc = "done" =>
          /\ po.sym = "ok"
          /\ po.tables = SortedSeqOf(WellFormedParts)
          /\ po.failed = SortedSeqOf(BrokenParts)
    /\ po.pc \in {"open", "done"} =>
          /\ Range(po.tables) \subseteq WellFormedParts
          /\ Range(po.failed) \subseteq BrokenParts
    /\ po.sym # "ok" => po.pc \in {"start", "exit"} /\ po.tables = <<>> /\ po.failed = <<>>

\* The first of three partitions lacks a column file; the other two opened.
C28_Witness ==
    /\ po.pc = "done"
    /\ po.dirs[1] = "nocol"
    /\ po.tables = <<2, 3>> /\ po.failed = <<1>>
    /\ po.listing[1] = 3

\* The symbol file is missing and the program ended.
SymMissingExit == po.pc = "exit" /\ po.sym = "missing" /\ po.dirs[1] = "ok"

(***************************************************************************)
(* PipelineExecutor.run in several threads at once (one thread per         *)
(* streaming request, pipelines.py:90; asyncio.to_thread in ws.py:84).     *)
(* The part of run before the cache write works on locals only; the cache  *)
(* write and the eviction are four separate operations on the shared       *)
(* dictionary, and another thread can run between any two of them.         *)
(***************************************************************************)
Threads == {1, 2}
NewSessionIds == {"s1", "s2", "s3"}
Prefilled == <<"p01", "p02", "p03", "p04", "p05", "p06", "p07", "p08", "p09", "p10",
               "p11", "p12", "p13", "p14", "p15", "p16", "p17", "p18", "p19", "p20">>

InFlight(t) == thr[t].pc \in {"write", "check", "oldest", "del"}

\* run up to the cache write, with a session id no other running call uses.
ThrStart(t) ==
    /\ thr[t].pc \in {"idle", "returned", "raised"}
    /\ thr[t].calls < MaxCalls
    /\ \E sid \in NewSessionIds :
          /\ \A u \in Threads \ {t} : InFlight(u) => thr[u].sid # sid
          /\ thr' = [thr EXCEPT ![t] = [pc |-> "write", sid |-> sid, oldest |-> "",
                                        calls |-> thr[t].calls + 1]]
    /\ UNCHANGED <<cache, thrRest>>

\* _session_cache[session_id] = results
ThrWrite(t) ==
    /\ thr[t].pc = "write"
    /\ cache' = IF CacheHas(cache, thr[t].sid)
                THEN [i \in DOMAIN cache |->
                         IF cache[i].sid = thr[t].sid
                         THEN [cache[i] EXCEPT !.results = ("a" :> "out")] ELSE cache[i]]
                ELSE Append(cache, [sid |-> thr[t].sid, results |-> ("a" :> "out")])
    /\ thr' = [thr EXCEPT ![t].pc = "check"]
    /\ UNCHANGED thrRest

\* if len(_session_cache) > _MAX_SESSIONS
ThrCheck(t) ==
    /\ thr[t].pc = "check"
    /\ thr' = [thr EXCEPT ![t].pc = IF Len(cache) > MAX_SESSIONS THEN "oldest" ELSE "returned"]
    /\ UNCHANGED <<cache, thrRest>>

\* oldest = next(iter(_session_cache))
ThrOldest(t) ==
    /\ thr[t].pc = "oldest"
    /\ thr' = IF cache = <<>> THEN [thr EXCEPT ![t].pc = "raised"]
              ELSE [thr EXCEPT ![t].pc = "del", ![t].oldest = cache[1].sid]
    /\ UNCHANGED <<cache, thrRest>>

\* del _session_cache[oldest]: KeyError when the key is no longer there.
ThrDel(t) ==
    /\ thr[t].pc = "del"
    /\ cache' = SelectSeq(cache, LAMBDA s : s.sid # thr[t].oldest)
    /\ thr' = [thr EXCEPT ![t].pc = IF CacheHas(cache, thr[t].oldest) THEN "returned"
                                    ELSE "raised"]
    /\ UNCHANGED thrRest

InitThr ==
    /\ tbl = NoTable
    /\ rtbl = EmptyRight
    /\ call = [fn |-> "run threads"]
    /\ ops = <<>>
    /\ CallStart
    /\ heap = <<>> /\ h = NoHandles /\ held = {} /\ fs = <<>> /\ ctx = NoCtx
    /\ sym = NoSym /\ run = NoRun /\ store = NoStore /\ pinned = 0
    /\ ex = NoExec /\ ws = NoWs /\ sse = NoSse /\ po = NoPo
    /\ \E n \in {MAX_SESSIONS - 1, MAX_SESSIONS} :
          cache = [i \in 1..n |-> [sid |-> Prefilled[i], results |-> ("a" :> "out")]]
    /\ thr = [t \in Threads |-> [pc |-> "idle", sid |-> "", oldest |-> "", calls |-> 0]]

NextThr ==
    \E t \in Threads :
       ThrStart(t) \/ ThrWrite(t) \/ ThrCheck(t) \/ ThrOldest(t) \/ ThrDel(t)

SpecThr == InitThr /\ [][NextThr]_vars

NoneInFlight == \A t \in Threads : ~InFlight(t)

\* C29: whenever no run is in flight the cache holds at most MAX_SESSIONS
\* sessions, every run that was started has returned, and the session each
\* thread wrote last is in the cache.
C29_CacheBounded ==
    NoneInFlight =>
        /\ Len(cache) <= MAX_SESSIONS
        /\ \A t \in Threads : thr[t].pc # "raised"
        /\ \A t \in Threads : thr[t].pc = "returned" => CacheHas(cache, thr[t].sid)

\* The size bound alone, in states where the last call of every thread
\* returned normally.
BoundedWhenAllReturned ==
    (\A t \in Threads : thr[t].pc = "returned") => Len(cache) <= MAX_SESSIONS

\* The cache is never left over the limit by the calls of one thread while
\* the other thread has not started.
OneThreadBounded ==
    (NoneInFlight /\ thr[2].calls = 0) => Len(cache) <= MAX_SESSIONS /\ thr[1].pc # "raised"

OneThreadEvicted ==
    /\ thr[1].pc = "returned" /\ thr[2].calls = 0
    /\ Len(cache) = MAX_SESSIONS
    /\ cache[1].sid = "p02"
    /\ cache[MAX_SESSIONS].sid = thr[1].sid

(***************************************************************************)
(* Resumed runs: a run call made with start_from and a session id that a   *)
(* previous call of the same behaviour left in the cache.                   *)
(***************************************************************************)
Resumed == run.start_idx > 0 /\ run.pc \in {"loop", "exec", "break", "returned"}
BeforeStart == {run.order[i] : i \in 1..run.start_idx}
UpstreamOf(n) == {run.edges[k][1] : k \in {j \in DOMAIN run.edges : run.edges[j][2] = n}}

\* No node ordered before start_from is executed or gets a callback.
ResumeSkipsEarlier ==
    Resumed => \A i \in DOMAIN run.events : run.events[i][2] \notin BeforeStart

\* The inputs merged for the node about to execute hold the output of each
\* of its upstream nodes.
InputsComplete ==
    (Resumed /\ run.pc = "exec") => UpstreamOf(run.order[run.idx]) \subseteq DOMAIN run.results

\* The returned results hold every node ordered before start_from.
EarlierInResults ==
    (Resumed /\ run.pc = "returned") => BeforeStart \subseteq DOMAIN run.results

\* C30: in a resumed run no node ordered before start_from is executed or
\* gets a callback, every executed node receives the outputs of all its
\* upstream nodes, and every node ordered before start_from is in the
\* returned results, whatever run left the cached session.
C30_ResumeComplete == ResumeSkipsEarlier /\ InputsComplete /\ EarlierInResults

\* The same for a cached session that holds an output for every node.
ResumeFromCompleteSession ==
    (/\ Resumed /\ run.pc # "returned"
     /\ Range(run.nodes) \subseteq DOMAIN CacheGet(cache, run.session_id)) =>
        /\ BeforeStart \subseteq DOMAIN run.results
        /\ run.pc = "exec" => UpstreamOf(run.order[run.idx]) \subseteq DOMAIN run.results

ResumeSkipsEarlierReached ==
    /\ Resumed /\ run.pc = "returned"
    /\ run.start_from = "c" /\ run.order = <<"a", "b", "c">>
    /\ run.events = <<<<"start", "c">>, <<"done", "c">>>>
    /\ DOMAIN run.results = {"a", "b", "c"}

====
